---------------------------- MODULE Spec2Model ----------------------------
(***************************************************************************)
(* Model of the recommendation backend (thorgodoflightning).               *)
(*                                                                         *)
(* RecommendationService.get_hybrid_recommendations and                    *)
(* get_graph_recommendations are modelled as call frames that step through *)
(* their upstream reads and loops.  The document store (Firestore) and the *)
(* vector index (Pinecone) are the shared state.                           *)
(*                                                                         *)
(* Scores are Python floats in the source.  They are modelled as exact     *)
(* rationals over a common denominator:                                    *)
(*   graph_weight         = gw / WeightDen,       gw in 0..WeightDen       *)
(*   similarity score     = s / ScoreDen,         s in -ScoreDen..ScoreDen *)
(*   a merged score value = n / ScoreScale                                 *)
(***************************************************************************)
EXTENDS Integers, Sequences, FiniteSets, TLC

\* ------------------------------------------------------------ bounds ----
NumUsers  == 3      \* user ids 1..NumUsers
NumVideos == 2      \* video ids 1..NumVideos
MaxScore  == 2      \* interaction scores 1..MaxScore (0: no interaction doc)
MaxCount  == 3      \* count / limit arguments 0..MaxCount
MaxResults   == 3   \* filtered_results holds at most MaxResults results
NumUrls      == 2   \* product URLs 1..NumUrls (0: the empty string)
MaxRelevance == 2   \* adjusted scores 0..MaxRelevance
MaxLimit     == 2   \* search_k_similar's limit 1..MaxLimit
MaxCalls     == 4   \* calls of the singleton services in one process
MaxTags      == 4   \* the tag list of a health analysis holds at most MaxTags tags
MaxProducts  == 2   \* a research task compares at most MaxProducts products
MaxSources   == 1   \* a product search answers with at most MaxSources sources
MaxReports   == 2   \* the collection 'reports' holds at most MaxReports reports
WeightDen == 2      \* graph_weight grid: 0, 1/WeightDen, .., 1
ScoreDen  == 1      \* similarity score grid: -1, .., -1/ScoreDen, 0, .., 1

\* ------------------------------------------------- program constants ----
InteractionsLimit == 100   \* .limit(100) on the user's interactions
SimilarUsersLimit == 20    \* .limit(20) on a video's interactions
TopSimilarUsers   == 5     \* sorted(user_scores, ...)[:5]
UserVideosLimit   == 20    \* .limit(20) on a similar user's videos
RecentLimit       == 10    \* get_user_recent_videos(user_id, limit=10)
BatchSize         == 10    \* batched reads of 10 documents

Users    == 1..NumUsers
Videos   == 1..NumVideos
Requests == {1, 2}

VARIABLES
    user_interactions,   \* user_interactions/{u}/videos/{v}.interactionScore
    video_interactions,  \* videos/{v}/interactions/{u}.score
    videos,              \* ids of the documents of collection 'videos'
    index,               \* ids of the vectors in namespace "video-metadata"
    index_exists,        \* the Pinecone index Config.PINECONE_INDEX_NAME exists
    vector_service,      \* VectorService's class attributes, TRUE once set
    frame,               \* per request: the locals of the running call
    final_scores,        \* per call frame: the final_scores dict
    vendor,              \* per request: a vendor call site's request loop
    agent,               \* per request: a call of the agent layer
    reducer,             \* a deduplicating reducer: its loop and its lists
    singletons,          \* FirebaseService's class attributes, the clients
                         \* constructed so far, and the last call
    http,                \* per request: a router handler and its locals
    video_doc,           \* the document videos/{video_id} the handlers write
    cleaner,             \* a call of HealthService._clean_tags
    research,            \* a research_products task and its document
    analyzer,            \* a VideoAnalyzer.analyze call and its temp file
    recommender,         \* a call of _get_specific_recommendation
    reporter             \* a ResearchAgent.process call and its stores

\* The recommendation requests and what they share.
recommendation == <<user_interactions, video_interactions, videos, index,
                    index_exists, vector_service, frame, final_scores>>
\* The state of the other components.
others ==
    <<vendor, agent, reducer, singletons, http, video_doc,
      cleaner, research, analyzer, recommender, reporter>>
vars == <<recommendation, others>>
\* Per component: the other components, and everything but the component.
not_vendor ==
    <<agent, reducer, singletons, http, video_doc, cleaner,
      research, analyzer, recommender, reporter>>
not_agent ==
    <<vendor, reducer, singletons, http, video_doc, cleaner,
      research, analyzer, recommender, reporter>>
not_reducer ==
    <<vendor, agent, singletons, http, video_doc, cleaner,
      research, analyzer, recommender, reporter>>
not_singletons ==
    <<vendor, agent, reducer, http, video_doc, cleaner, research,
      analyzer, recommender, reporter>>
not_router ==
    <<vendor, agent, reducer, singletons, cleaner, research,
      analyzer, recommender, reporter>>
not_cleaner ==
    <<vendor, agent, reducer, singletons, http, video_doc,
      research, analyzer, recommender, reporter>>
not_research ==
    <<vendor, agent, reducer, singletons, http, video_doc,
      cleaner, analyzer, recommender, reporter>>
not_analyzer ==
    <<vendor, agent, reducer, singletons, http, video_doc,
      cleaner, research, recommender, reporter>>
not_recommender ==
    <<vendor, agent, reducer, singletons, http, video_doc,
      cleaner, research, analyzer, reporter>>
not_reporter ==
    <<vendor, agent, reducer, singletons, http, video_doc,
      cleaner, research, analyzer, recommender>>
except_vendor == <<recommendation, not_vendor>>
except_agent == <<recommendation, not_agent>>
except_reducer == <<recommendation, not_reducer>>
except_singletons == <<recommendation, not_singletons>>
except_router == <<recommendation, not_router>>
except_cleaner == <<recommendation, not_cleaner>>
except_research == <<recommendation, not_research>>
except_analyzer == <<recommendation, not_analyzer>>
except_recommender == <<recommendation, not_recommender>>
except_reporter == <<recommendation, not_reporter>>
\* The documents and the vectors.
db == <<user_interactions, video_interactions, videos, index>>
\* Everything the requests share.
shared == <<db, index_exists, vector_service>>

\* ----------------------------------------------------------- helpers ----
Min(a, b) == IF a < b THEN a ELSE b
Max(a, b) == IF a > b THEN a ELSE b

\* Python's seq[:n] for n >= 0.
Take(s, n) == SubSeq(s, 1, Min(n, Len(s)))
\* Python's seq[n:] for n >= 0.
Drop(s, n) == SubSeq(s, Min(n, Len(s)) + 1, Len(s))

Reverse(s) == [k \in DOMAIN s |-> s[Len(s) + 1 - k]]
Range(s) == {s[k] : k \in DOMAIN s}
NoDuplicates(s) == \A a, b \in DOMAIN s : a # b => s[a] # s[b]

\* Every listing of a finite set: the orders list(set) and get_all may yield.
Perms(S) == {p \in [1..Cardinality(S) -> S] : NoDuplicates(p)}

RECURSIVE Fact(_)
Fact(n) == IF n <= 1 THEN 1 ELSE n * Fact(n - 1)

RECURSIVE SeqSum(_)
SeqSum(s) == IF s = <<>> THEN 0 ELSE Head(s) + SeqSum(Tail(s))

\* ---------------------------------------------- ordered dict (Python) ---
\* A dict is a sequence of <<key, value>> items in insertion order.
HasKey(d, key) == \E k \in DOMAIN d : d[k][1] = key
\* d.get(key, 0)
DictGet(d, key) ==
    IF HasKey(d, key) THEN d[CHOOSE k \in DOMAIN d : d[k][1] = key][2] ELSE 0
\* d[key] = value: an existing key keeps its place, a new key goes last.
DictSet(d, key, value) ==
    IF HasKey(d, key)
    THEN [k \in DOMAIN d |-> IF d[k][1] = key THEN <<key, value>> ELSE d[k]]
    ELSE Append(d, <<key, value>>)
Keys(d) == [k \in DOMAIN d |-> d[k][1]]

\* sorted(items, key=lambda x: x[1], reverse=True): stable, equal keys keep
\* their original relative order.
RECURSIVE InsertDesc(_, _)
InsertDesc(sorted, item) ==
    IF sorted = <<>> THEN <<item>>
    ELSE IF Head(sorted)[2] >= item[2]
         THEN <<Head(sorted)>> \o InsertDesc(Tail(sorted), item)
         ELSE <<item>> \o sorted

RECURSIVE SortedDesc(_)
SortedDesc(items) ==
    IF items = <<>> THEN <<>>
    ELSE InsertDesc(SortedDesc(SubSeq(items, 1, Len(items) - 1)), items[Len(items)])

\* ------------------------------------------------------- Firestore ------
\* .order_by(field, DESCENDING).limit(n).get() over a subcollection whose
\* documents are the keys with a positive score: by score descending, equal
\* scores by document id descending.
RECURSIVE OrderByDesc(_, _)
OrderByDesc(scores, keys) ==
    IF keys = {} THEN <<>>
    ELSE LET top == CHOOSE a \in keys : \A b \in keys :
                        \/ scores[a] > scores[b]
                        \/ scores[a] = scores[b] /\ a >= b
         IN  <<top>> \o OrderByDesc(scores, keys \ {top})

Docs(scores) == {k \in DOMAIN scores : scores[k] > 0}
QueryDesc(scores, limit) == Take(OrderByDesc(scores, Docs(scores)), limit)


\* get_videos_by_ids: reads the documents in batches of BatchSize with
\* db.get_all, keeps those that exist.  get_all does not promise the order of
\* its references, so each batch may come back in any order.  The documents
\* are represented by their ids.
\* Faulty variant: a loop that always reads at least one batch.
BatchCountAtLeastOne(video_ids) ==
    Max(1, (Len(video_ids) + BatchSize - 1) \div BatchSize)

BatchCount(video_ids) == (Len(video_ids) + BatchSize - 1) \div BatchSize

RECURSIVE FetchOutcomes(_, _)
FetchOutcomes(video_ids, existing) ==
    IF video_ids = <<>> THEN {<<>>}
    ELSE LET batch == Range(Take(video_ids, BatchSize)) \cap existing
         IN  {p \o rest : p \in Perms(batch),
                          rest \in FetchOutcomes(Drop(video_ids, BatchSize), existing)}

\* -------------------------------------------------------- Pinecone ------
SimScores == (0 - ScoreDen)..ScoreDen

\* index.query(vector, top_k=limit): at most top_k matches with distinct
\* ids, ranked by score descending.  The scores depend on the embeddings,
\* which are not modelled: any ranked list over the indexed ids can come back.
RankedMatches(ids, limit) ==
    UNION {
        {[k \in 1..n |-> [id |-> who[k], score |-> sc[k]]] :
            who \in {w \in [1..n -> ids] : NoDuplicates(w)},
            sc  \in {f \in [1..n -> SimScores] :
                        \A k \in 1..(n - 1) : f[k] >= f[k + 1]}}
        : n \in 0..Min(limit, Cardinality(ids))}

\* VectorService.initialize, called by search_similar when _instance is not
\* set: the Pinecone client, the index (created when missing), the OpenAI
\* client, in this order.  Each vendor call may raise; what was set before
\* stays set.  The outcomes: the attributes, whether the index exists,
\* whether initialize raised, and how many Pinecone clients and Index
\* handles the call constructed.
Uninitialized ==
    [pinecone_client |-> FALSE, instance |-> FALSE, openai_client |-> FALSE]

Initialize(service, exists) ==
    IF service.instance
    THEN {[service |-> service, index_exists |-> exists, raised |-> FALSE,
           clients |-> 0, indexes |-> 0]}
    ELSE LET client == [service EXCEPT !.pinecone_client = TRUE]
             instance == [client EXCEPT !.instance = TRUE]
             all == [instance EXCEPT !.openai_client = TRUE]
         IN  {[service |-> service,  index_exists |-> exists, raised |-> TRUE,
               clients |-> 0, indexes |-> 0],
              [service |-> client,   index_exists |-> exists, raised |-> TRUE,
               clients |-> 1, indexes |-> 0],
              [service |-> client,   index_exists |-> TRUE,   raised |-> TRUE,
               clients |-> 1, indexes |-> 0],
              [service |-> instance, index_exists |-> TRUE,   raised |-> TRUE,
               clients |-> 1, indexes |-> 1],
              [service |-> all,      index_exists |-> TRUE,   raised |-> FALSE,
               clients |-> 1, indexes |-> 1]}

\* ------------------------------------------------------ call frames -----
\* A vendor call site that has not been entered.
IdleVendor ==
    [site |-> "none", pc |-> "idle", attempt |-> 0, responses |-> <<>>,
     logged |-> 0, slept |-> 0, result |-> "none"]

\* An agent call that has not started.  "calls" lists the functions
\* invoked so far, "analysis" is the dict _analyze_request returned.
NoAnalysis == [has_action |-> FALSE, action |-> "none", has_query |-> FALSE]
IdleAgent ==
    [pc |-> "idle", entry |-> "none", agent_type |-> "none", valid |-> FALSE,
     calls |-> <<>>, analysis |-> NoAnalysis, outcome |-> "none"]

\* A reducer that has not been entered.
IdleReducer ==
    [pc |-> "idle", op |-> "none", input |-> <<>>, i |-> 0, unique |-> <<>>,
     output |-> <<>>, limit |-> 0]

\* FirebaseService before any call: _instance, _db, _app and _bucket are
\* None (FALSE); nothing was constructed and no call was made.
NoFirebase == [instance |-> FALSE, db |-> FALSE, app |-> FALSE, bucket |-> FALSE]
NoCall == [op |-> "none", raised |-> FALSE, result |-> "none", reused |-> FALSE]
NoSingletons ==
    [firebase |-> NoFirebase, apps |-> 0, clients |-> 0, indexes |-> 0,
     calls |-> 0, last |-> NoCall]

\* A router handler that has not been entered.  rejected: the status of
\* the HTTPException the handler raised to refuse the request (0: none);
\* status: the status the client receives; wrote: the analysisStatus this
\* handler last wrote.
IdleHttp ==
    [handler |-> "none", pc |-> "idle", auth |-> "valid", target |-> "video",
     owner |-> TRUE, payload |-> "ok", rejected |-> 0, status |-> 0,
     wrote |-> "none", analysed |-> FALSE, raised |-> {}]

\* An uploaded video that was never analysed.
NewVideo ==
    [analysisStatus |-> "pending", healthImpactScore |-> FALSE,
     healthAnalysis |-> FALSE, vectorId |-> FALSE, updated |-> FALSE,
     writer |-> 0]

\* _clean_tags before it is called.
IdleCleaner == [pc |-> "idle", tags |-> <<>>, score |-> 0, clean_tags |-> <<>>]

NoResearchDoc == [status |-> "absent", results |-> FALSE, error |-> FALSE]
IdleResearch ==
    [pc |-> "idle", products |-> <<>>, research_data |-> <<>>,
     doc_ref |-> FALSE, doc |-> NoResearchDoc, written |-> <<>>,
     compared |-> FALSE, built |-> FALSE, raised |-> {},
     outcome |-> "none"]
AnalysisTasks == {"video_intelligence", "pose", "environment"}
IdleAnalyzer ==
    [pc |-> "idle", temp_file_path |-> FALSE, file_exists |-> FALSE,
     tasks |-> [t \in AnalysisTasks |-> "none"], failed |-> "none",
     outcome |-> "none"]
IdleRecommender ==
    [pc |-> "idle", products |-> <<>>, formatted_products |-> <<>>,
     reply |-> <<>>, error |-> FALSE, result |-> <<>>,
     response_parts |-> <<>>]
NoReport == [id |-> 0, productId |-> 0, research |-> "none", searchResults |-> "none"]
\* "reports" is the collection 'reports', "namespace" the ids of the vectors
\* in the Pinecone namespace "report-metadata"; both outlive a call.
IdleReporter ==
    [pc |-> "idle", input_data |-> 0, search_results |-> "none",
     research_summary |-> "none", report |-> NoReport, logged |-> 0,
     failed |-> "none", outcome |-> "none", result |-> NoReport,
     reports |-> <<>>, namespace |-> {}]

\* No other component is running.
InitOthers ==
    /\ vendor = [r \in Requests |-> IdleVendor]
    /\ agent = [r \in Requests |-> IdleAgent]
    /\ reducer = IdleReducer
    /\ singletons = NoSingletons
    /\ http = [r \in Requests |-> IdleHttp]
    /\ video_doc = NewVideo
    /\ cleaner = IdleCleaner
    /\ research = IdleResearch
    /\ analyzer = IdleAnalyzer
    /\ recommender = IdleRecommender
    /\ reporter = IdleReporter

IdleFrame ==
    [pc |-> "idle", op |-> "none", user_id |-> 0, count |-> 0,
     graph_weight |-> 0, recent_videos |-> <<>>, similar_videos |-> <<>>,
     interactions |-> <<>>, user_scores |-> <<>>, similar_users |-> <<>>,
     recommended_videos |-> {}, graph_videos |-> <<>>, i |-> 0,
     recommended_ids |-> <<>>, result |-> <<>>, at |-> "none"]

\* An exception leaves the call: every except clause of the two functions
\* logs and raises ValueError.  "at" keeps the statement that raised.
Raise(r) ==
    frame' = [frame EXCEPT ![r].pc = "raised", ![r].at = frame[r].pc]

\* ------------------------------------- get_graph_recommendations --------
\* user_scores[user_doc.id] = user_scores.get(user_doc.id, 0) + score for
\* every user_doc of similar_users other than the requesting user.
RECURSIVE ScoreUsers(_, _, _, _)
ScoreUsers(user_scores, similar_users, scores, user_id) ==
    IF similar_users = <<>> THEN user_scores
    ELSE LET user_doc == Head(similar_users)
             next == IF user_doc # user_id
                     THEN DictSet(user_scores, user_doc,
                                  DictGet(user_scores, user_doc) + scores[user_doc])
                     ELSE user_scores
         IN  ScoreUsers(next, Tail(similar_users), scores, user_id)

\* The inner loop over one similar user's videos: add, stop once the set
\* holds limit ids.
RECURSIVE AddVideos(_, _, _)
AddVideos(recommended_videos, user_videos, limit) ==
    IF user_videos = <<>> THEN recommended_videos
    ELSE LET added == recommended_videos \cup {Head(user_videos)}
         IN  IF Cardinality(added) >= limit THEN added
             ELSE AddVideos(added, Tail(user_videos), limit)

\* sorted(user_scores, key=user_scores.get, reverse=True)[:5]
RankUsers(user_scores) == Take(Keys(SortedDesc(user_scores)), TopSimilarUsers)

\* list(recommended_videos)[:limit]: a set has no order of its own; the list
\* is some listing of it.
ListOfSet(recommended_videos, limit) ==
    {Take(order, limit) : order \in Perms(recommended_videos)}

Call(r, op, user_id, count, graph_weight) ==
    /\ frame[r].pc = "idle"
    /\ frame' = [frame EXCEPT ![r] =
           [IdleFrame EXCEPT !.pc = IF op = "hybrid" THEN "recent" ELSE "graph",
                             !.op = op, !.user_id = user_id, !.count = count,
                             !.graph_weight = graph_weight]]
    /\ UNCHANGED <<shared, final_scores, others>>

GraphInteractions(r) ==
    /\ frame[r].pc = "graph"
    /\ \/ frame' = [frame EXCEPT
              ![r].interactions =
                  QueryDesc(user_interactions[frame[r].user_id], InteractionsLimit),
              ![r].user_scores = <<>>,
              ![r].i = 0,
              ![r].pc = "graph_users"]
       \/ Raise(r)
    /\ UNCHANGED <<shared, final_scores, others>>

GraphSimilarUsers(r) ==
    /\ frame[r].pc = "graph_users"
    /\ frame[r].i < Len(frame[r].interactions)
    /\ LET video_id == frame[r].interactions[frame[r].i + 1]
           similar_users ==
               QueryDesc(video_interactions[video_id], SimilarUsersLimit)
       IN  \/ frame' = [frame EXCEPT
                  ![r].user_scores =
                      ScoreUsers(frame[r].user_scores, similar_users,
                                 video_interactions[video_id], frame[r].user_id),
                  ![r].i = frame[r].i + 1]
           \/ Raise(r)
    /\ UNCHANGED <<shared, final_scores, others>>

GraphRankUsers(r) ==
    /\ frame[r].pc = "graph_users"
    /\ frame[r].i = Len(frame[r].interactions)
    /\ frame' = [frame EXCEPT
           ![r].similar_users = RankUsers(frame[r].user_scores),
           ![r].recommended_videos = {},
           ![r].i = 0,
           ![r].pc = "graph_videos"]
    /\ UNCHANGED <<shared, final_scores, others>>

GraphUserVideos(r) ==
    /\ frame[r].pc = "graph_videos"
    /\ frame[r].i < Len(frame[r].similar_users)
    /\ LET similar_user_id == frame[r].similar_users[frame[r].i + 1]
           user_videos ==
               QueryDesc(user_interactions[similar_user_id], UserVideosLimit)
           added == AddVideos(frame[r].recommended_videos, user_videos,
                              frame[r].count)
       IN  \/ frame' = [frame EXCEPT
                  ![r].recommended_videos = added,
                  ![r].i = IF Cardinality(added) >= frame[r].count
                           THEN Len(frame[r].similar_users)
                           ELSE frame[r].i + 1]
           \/ Raise(r)
    /\ UNCHANGED <<shared, final_scores, others>>

GraphReturn(r) ==
    /\ frame[r].pc = "graph_videos"
    /\ frame[r].i = Len(frame[r].similar_users)
    /\ \E listed \in ListOfSet(frame[r].recommended_videos, frame[r].count) :
           frame' = [frame EXCEPT
               ![r].graph_videos = listed,
               ![r].result = IF frame[r].op = "graph" THEN listed ELSE <<>>,
               ![r].i = 0,
               ![r].pc = IF frame[r].op = "graph" THEN "done" ELSE "merge"]
    /\ UNCHANGED <<shared, final_scores, others>>

\* The response (or the error) has gone to the caller; the frame is gone.
Return(r) ==
    /\ frame[r].pc \in {"done", "raised"}
    /\ frame' = [frame EXCEPT ![r] = IdleFrame]
    /\ final_scores' = [final_scores EXCEPT ![r] = <<>>]
    /\ UNCHANGED <<shared, others>>

\* ------------------------------------------------ graph specification ---
\* Databases in which both interaction collections record the same
\* interactions with the same scores.
Mirror(ui) == [v \in Videos |-> [u \in Users |-> ui[u][v]]]

InitFrames ==
    /\ frame = [r \in Requests |-> IdleFrame]
    /\ final_scores = [r \in Requests |-> <<>>]
    /\ InitOthers

InitGraph ==
    /\ user_interactions \in [Users -> [Videos -> 0..MaxScore]]
    /\ video_interactions = Mirror(user_interactions)
    /\ videos = Videos
    /\ index = Videos
    /\ index_exists = TRUE
    /\ vector_service = Uninitialized
    /\ InitFrames

NextGraph ==
    \/ \E limit \in 0..MaxCount : Call(1, "graph", 1, limit, 0)
    \/ GraphInteractions(1)
    \/ GraphSimilarUsers(1)
    \/ GraphRankUsers(1)
    \/ GraphUserVideos(1)
    \/ GraphReturn(1)
    \/ Return(1)

SpecGraph == InitGraph /\ [][NextGraph]_vars

\* ------------------------------------ get_hybrid_recommendations -------
\* A score n stands for the float n / ScoreScale.
ScoreScale == Fact(MaxCount) * WeightDen * ScoreDen

\* Faulty variant: the rank counted from one, (count - i - 1) / count * graph_weight.
GraphContributionOffByOne(i, count, graph_weight) ==
    (count - i - 1) * (Fact(MaxCount) \div count) * graph_weight * ScoreDen

\* score = (count - i) / count * graph_weight
GraphContribution(i, count, graph_weight) ==
    (count - i) * (Fact(MaxCount) \div count) * graph_weight * ScoreDen

\* Faulty variant: the similarity score weighted by graph_weight itself.
SimilarityContributionGraphWeight(graph_weight, score) ==
    graph_weight * score * Fact(MaxCount)

\* embedding_weight = 1.0 - graph_weight; embedding_weight * video['score']
SimilarityContribution(graph_weight, score) ==
    (WeightDen - graph_weight) * score * Fact(MaxCount)

\* Faulty variant: a list of scores instead of a dict, one entry per contribution.
AccumulateAppend(scores, video_id, score) ==
    Append(scores, <<video_id, score>>)

\* Faulty variant: final_scores[video_id] = score, the later contribution overwrites.
AccumulateOverwrite(scores, video_id, score) ==
    DictSet(scores, video_id, score)

\* final_scores[video_id] = final_scores.get(video_id, 0) + score
Accumulate(scores, video_id, score) ==
    DictSet(scores, video_id, DictGet(scores, video_id) + score)

\* Faulty variant: the truncation without the sort.
SelectTopUnsorted(scores, count) == Take(scores, count)

\* Faulty variant: the sort without the truncation.
SelectTopAll(scores, count) == SortedDesc(scores)

\* Faulty variant: a descending sort that reverses equal scores.
SelectTopTiesReversed(scores, count) == Take(SortedDesc(Reverse(scores)), count)

\* sorted(final_scores.items(), key=lambda x: x[1], reverse=True)[:count]
SelectTop(scores, count) == Take(SortedDesc(scores), count)

\* Faulty variant: one final_scores dict shared by every call (a class attribute).
ScoreCellShared(r) == 1

\* final_scores is a local of the call: each frame has its own dict.
ScoreCell(r) == r

GetUserRecentVideos(r) ==
    /\ frame[r].pc = "recent"
    /\ \/ \E order \in Perms(Docs(user_interactions[frame[r].user_id])) :
              \* lastInteraction is not modelled: the query may rank the
              \* user's interaction documents in any order.
              LET video_ids == Take(order, RecentLimit)
              IN  \E recent_videos \in FetchOutcomes(video_ids, videos) :
                      frame' = [frame EXCEPT
                          ![r].recent_videos = recent_videos,
                          \* if not recent_videos: return []
                          ![r].pc = IF recent_videos = <<>> THEN "done" ELSE "search"]
       \/ Raise(r)
    /\ UNCHANGED <<shared, final_scores, others>>

SearchSimilar(r) ==
    /\ frame[r].pc = "search"
    /\ \E init \in Initialize(vector_service, index_exists) :
           /\ vector_service' = init.service
           /\ index_exists' = init.index_exists
           /\ IF init.raised \/ ~init.service.openai_client
              \* initialize raised, or _generate_embeddings found no client
              THEN Raise(r)
              ELSE \/ \E matches \in RankedMatches(index, frame[r].count) :
                          frame' = [frame EXCEPT ![r].similar_videos = matches,
                                                 ![r].pc = "graph"]
                   \/ Raise(r)
    /\ UNCHANGED <<db, final_scores, others>>

StartMerge(r) ==
    /\ frame[r].pc = "merge"
    /\ final_scores' = [final_scores EXCEPT ![ScoreCell(r)] = <<>>]
    /\ frame' = [frame EXCEPT ![r].i = 0, ![r].pc = "merge_graph"]
    /\ UNCHANGED <<shared, others>>

MergeGraph(r) ==
    /\ frame[r].pc = "merge_graph"
    /\ frame[r].i < Len(frame[r].graph_videos)
    /\ LET video_id == frame[r].graph_videos[frame[r].i + 1]
           score == GraphContribution(frame[r].i, frame[r].count,
                                      frame[r].graph_weight)
       IN  final_scores' = [final_scores EXCEPT ![ScoreCell(r)] =
               Accumulate(final_scores[ScoreCell(r)], video_id, score)]
    /\ frame' = [frame EXCEPT ![r].i = frame[r].i + 1]
    /\ UNCHANGED <<shared, others>>

MergeGraphDone(r) ==
    /\ frame[r].pc = "merge_graph"
    /\ frame[r].i = Len(frame[r].graph_videos)
    /\ frame' = [frame EXCEPT ![r].i = 0, ![r].pc = "merge_similar"]
    /\ UNCHANGED <<shared, final_scores, others>>

MergeSimilar(r) ==
    /\ frame[r].pc = "merge_similar"
    /\ frame[r].i < Len(frame[r].similar_videos)
    /\ LET video == frame[r].similar_videos[frame[r].i + 1]
           score == SimilarityContribution(frame[r].graph_weight, video.score)
       IN  final_scores' = [final_scores EXCEPT ![ScoreCell(r)] =
               Accumulate(final_scores[ScoreCell(r)], video.id, score)]
    /\ frame' = [frame EXCEPT ![r].i = frame[r].i + 1]
    /\ UNCHANGED <<shared, others>>

SortAndSelect(r) ==
    /\ frame[r].pc = "merge_similar"
    /\ frame[r].i = Len(frame[r].similar_videos)
    /\ frame' = [frame EXCEPT
           ![r].recommended_ids =
               SelectTop(final_scores[ScoreCell(r)], frame[r].count),
           ![r].pc = "fetch"]
    /\ UNCHANGED <<shared, final_scores, others>>

GetVideosByIds(r) ==
    /\ frame[r].pc = "fetch"
    /\ LET video_ids == Keys(frame[r].recommended_ids)
       IN  \/ \E docs \in FetchOutcomes(video_ids, videos) :
                  frame' = [frame EXCEPT ![r].result = docs, ![r].pc = "done"]
           \/ /\ BatchCount(video_ids) > 0
              /\ Raise(r)
    /\ UNCHANGED <<shared, final_scores, others>>

\* ----------------------------------------------- hybrid specification ---
\* Databases for one requesting user (user 1): the user has interacted with
\* video 1 or with nothing, user 2 has interacted with video 1 as well and
\* has any set of videos of its own.
InitHybridDb ==
    \E mine \in 0..1, theirs \in [Videos -> 0..1], missing \in {{}, {NumVideos}} :
        /\ user_interactions =
               [u \in Users |->
                   IF u = 1 THEN [v \in Videos |-> IF v = 1 THEN mine ELSE 0]
                   ELSE IF u = 2 THEN theirs
                   ELSE [v \in Videos |-> 0]]
        /\ video_interactions =
               [v \in Videos |-> [u \in Users |-> IF v = 1 /\ u <= 2 THEN 1 ELSE 0]]
        /\ videos = Videos \ missing
        /\ index_exists \in BOOLEAN
        /\ index = IF index_exists THEN Videos ELSE {}
        /\ vector_service = Uninitialized

Init ==
    /\ InitHybridDb
    /\ InitFrames

Next ==
    \/ \E count \in 0..MaxCount, graph_weight \in 0..WeightDen :
           Call(1, "hybrid", 1, count, graph_weight)
    \/ GetUserRecentVideos(1)
    \/ SearchSimilar(1)
    \/ GraphInteractions(1)
    \/ GraphSimilarUsers(1)
    \/ GraphRankUsers(1)
    \/ GraphUserVideos(1)
    \/ GraphReturn(1)
    \/ StartMerge(1)
    \/ MergeGraph(1)
    \/ MergeGraphDone(1)
    \/ MergeSimilar(1)
    \/ SortAndSelect(1)
    \/ GetVideosByIds(1)
    \/ Return(1)

Spec == Init /\ [][Next]_vars

\* =========================================================== claims =====
\* The merge of request r has produced its ranking (recommended_ids): the
\* call is at the final document fetch, or has returned after it (an early
\* return leaves recent_videos empty), or the fetch raised.
Ranked(r) ==
    /\ frame[r].op = "hybrid"
    /\ \/ frame[r].pc = "fetch"
       \/ frame[r].pc = "done" /\ frame[r].recent_videos # <<>>
       \/ frame[r].pc = "raised" /\ frame[r].at = "fetch"

GraphIds(r) == Range(frame[r].graph_videos)
SimilarIds(r) == {frame[r].similar_videos[k].id : k \in DOMAIN frame[r].similar_videos}
InputIds(r) == GraphIds(r) \cup SimilarIds(r)

\* The merged ranking: the identifiers of recommended_ids, in order.
Ranking(r) == Keys(frame[r].recommended_ids)

\* C1: every identifier of the graph list or the similarity list appears at
\* most once in the merged score mapping and in the merged ranking; when the
\* two lists are disjoint and count is at least the number of distinct
\* identifiers, the ranking holds exactly the union of both lists.
InvC1 ==
    \A r \in Requests :
        /\ NoDuplicates(Keys(final_scores[r]))
        /\ Ranked(r) =>
              /\ NoDuplicates(Ranking(r))
              /\ Range(Ranking(r)) \subseteq InputIds(r)
              /\ (/\ GraphIds(r) \cap SimilarIds(r) = {}
                  /\ frame[r].count >= Cardinality(InputIds(r)))
                 => Range(Ranking(r)) = InputIds(r)

WitC1 ==
    \E r \in Requests :
        /\ Ranked(r)
        /\ GraphIds(r) # {} /\ SimilarIds(r) # {}
        /\ GraphIds(r) \cap SimilarIds(r) = {}
        /\ frame[r].count >= Cardinality(InputIds(r))
        /\ Range(Ranking(r)) = InputIds(r)

\* The graph loop of request r has finished and no similarity score has been
\* added yet: final_scores holds the graph contributions alone.
GraphScored(r) ==
    /\ frame[r].pc = "merge_similar"
    /\ frame[r].i = 0

\* C2 as stated: the graph item at zero-based rank i of N graph items
\* contributes (N - i) / N * graph_weight, N the length of the graph list.
\* (score / ScoreScale = (N - i) / N * gw / WeightDen, cross-multiplied.)
OrigC2 ==
    \A r \in Requests :
        GraphScored(r) =>
            LET N == Len(frame[r].graph_videos)
            IN  \A k \in 1..N :
                    DictGet(final_scores[r], frame[r].graph_videos[k]) * N * WeightDen
                        = (N - (k - 1)) * frame[r].graph_weight * ScoreScale

\* C2 amended: the graph item at zero-based rank i contributes
\* (count - i) / count * graph_weight, count the requested count; with an
\* empty similarity list and graph_weight 1.0 the ranking is the graph list
\* in its order (for two graph items and count 3 the scores are 1 and 2/3).
InvC2 ==
    \A r \in Requests :
        /\ GraphScored(r) =>
              \A k \in 1..Len(frame[r].graph_videos) :
                  DictGet(final_scores[r], frame[r].graph_videos[k])
                          * frame[r].count * WeightDen
                      = (frame[r].count - (k - 1)) * frame[r].graph_weight * ScoreScale
        /\ (/\ Ranked(r)
            /\ frame[r].similar_videos = <<>>
            /\ frame[r].graph_weight = WeightDen)
           => /\ Ranking(r) = frame[r].graph_videos
              /\ (Len(frame[r].graph_videos) = 2 /\ frame[r].count = 3)
                 => /\ frame[r].recommended_ids[1][2] = ScoreScale
                    /\ frame[r].recommended_ids[2][2] * 3 = ScoreScale * 2

WitC2 ==
    \E r \in Requests :
        /\ Ranked(r)
        /\ frame[r].similar_videos = <<>>
        /\ frame[r].graph_weight = WeightDen
        /\ Len(frame[r].graph_videos) = 2
        /\ frame[r].count = 3
        /\ Len(frame[r].recommended_ids) = 2

\* The total the two lists give identifier id in request r, times count and
\* ScoreScale-scaled: the sum over the graph positions holding id of
\* (count - i) / count * graph_weight and over the similarity entries for id
\* of (1 - graph_weight) * score.
ExpectedTimesCount(r, id) ==
    LET f == frame[r]
        graph_part ==
            [k \in 1..Len(f.graph_videos) |->
                IF f.graph_videos[k] = id
                THEN (f.count - (k - 1)) * f.graph_weight * ScoreDen
                ELSE 0]
        similar_part ==
            [k \in 1..Len(f.similar_videos) |->
                IF f.similar_videos[k].id = id
                THEN (WeightDen - f.graph_weight) * f.similar_videos[k].score * f.count
                ELSE 0]
    IN  Fact(MaxCount) * (SeqSum(graph_part) + SeqSum(similar_part))

\* C3: the final score of every identifier is the sum of its contributions
\* from the sources it appears in (zero from a source it is absent from), the
\* similarity contribution being score * (1 - graph_weight); neither
\* contribution overwrites the other.
InvC3 ==
    \A r \in Requests :
        Ranked(r) =>
            /\ Range(Keys(final_scores[r])) = InputIds(r)
            /\ \A id \in InputIds(r) :
                   DictGet(final_scores[r], id) * frame[r].count
                       = ExpectedTimesCount(r, id)
            /\ \A k \in DOMAIN frame[r].recommended_ids :
                   frame[r].recommended_ids[k][2] * frame[r].count
                       = ExpectedTimesCount(r, frame[r].recommended_ids[k][1])

WitC3 ==
    \E r \in Requests, id \in Videos :
        /\ Ranked(r)
        /\ id \in GraphIds(r) \cap SimilarIds(r)
        /\ id \in Range(Ranking(r))
        /\ frame[r].graph_weight \in 1..(WeightDen - 1)
        /\ \E k \in DOMAIN frame[r].similar_videos :
               /\ frame[r].similar_videos[k].id = id
               /\ frame[r].similar_videos[k].score > 0

\* C4: the merged ranking is ordered by total score, descending: of two
\* adjacent entries the earlier has a score >= the later.
InvC4 ==
    \A r \in Requests :
        Ranked(r) =>
            \A k \in 1..(Len(frame[r].recommended_ids) - 1) :
                frame[r].recommended_ids[k][2] >= frame[r].recommended_ids[k + 1][2]

\* The sort has moved an entry: the ranking is not the insertion order.
WitC4 ==
    \E r \in Requests :
        /\ Ranked(r)
        /\ Len(frame[r].recommended_ids) >= 2
        /\ Ranking(r) # Take(Keys(final_scores[r]), frame[r].count)

\* C5: the selected identifier list has length exactly
\* min(count, number of distinct identifiers of the two lists).
InvC5 ==
    \A r \in Requests :
        Ranked(r) =>
            Len(Ranking(r)) = Min(frame[r].count, Cardinality(InputIds(r)))

\* The truncation has cut the ranking.
WitC5 ==
    \E r \in Requests :
        /\ Ranked(r)
        /\ frame[r].count >= 1
        /\ frame[r].count < Cardinality(InputIds(r))
        /\ Len(Ranking(r)) = frame[r].count

\* The largest similarity score of request r (numerator over ScoreDen).
MaxSimilarity(r) ==
    CHOOSE m \in SimScores :
        /\ \E k \in DOMAIN frame[r].similar_videos : frame[r].similar_videos[k].score = m
        /\ \A k \in DOMAIN frame[r].similar_videos : frame[r].similar_videos[k].score <= m

\* C6 as stated: no score of the merged ranking exceeds
\* graph_weight + (1 - graph_weight) * max(similarity_scores), for every
\* graph list and every (non-empty) similarity list.
OrigC6 ==
    \A r \in Requests :
        (Ranked(r) /\ frame[r].similar_videos # <<>>) =>
            \A k \in DOMAIN frame[r].recommended_ids :
                frame[r].recommended_ids[k][2]
                    <= Fact(MaxCount) *
                         (frame[r].graph_weight * ScoreDen
                          + (WeightDen - frame[r].graph_weight) * MaxSimilarity(r))

\* C6 amended: no score of the merged ranking exceeds
\* graph_weight + (1 - graph_weight) * max(0, max(similarity_scores)), the
\* maximum of an empty similarity list taken as 0.
InvC6 ==
    \A r \in Requests :
        Ranked(r) =>
            LET m == IF frame[r].similar_videos = <<>> THEN 0
                     ELSE Max(0, MaxSimilarity(r))
            IN  \A k \in DOMAIN frame[r].recommended_ids :
                    frame[r].recommended_ids[k][2]
                        <= Fact(MaxCount) *
                             (frame[r].graph_weight * ScoreDen
                              + (WeightDen - frame[r].graph_weight) * m)

\* The bound is met: a first-ranked graph item that also has the largest,
\* positive similarity score.
WitC6 ==
    \E r \in Requests :
        /\ Ranked(r)
        /\ frame[r].similar_videos # <<>>
        /\ frame[r].graph_weight \in 1..(WeightDen - 1)
        /\ MaxSimilarity(r) > 0
        /\ frame[r].recommended_ids # <<>>
        /\ frame[r].recommended_ids[1][2]
               = Fact(MaxCount) *
                   (frame[r].graph_weight * ScoreDen
                    + (WeightDen - frame[r].graph_weight) * MaxSimilarity(r))

\* Request r has both upstream lists and both are empty.
BothEmpty(r) ==
    /\ frame[r].op = "hybrid"
    /\ \/ frame[r].pc \in {"merge", "merge_graph", "merge_similar", "fetch"}
       \/ frame[r].pc = "done" /\ frame[r].recent_videos # <<>>
       \/ /\ frame[r].pc = "raised"
          /\ frame[r].at \in {"merge", "merge_graph", "merge_similar", "fetch"}
    /\ frame[r].graph_videos = <<>>
    /\ frame[r].similar_videos = <<>>

\* C7: when both the graph list and the similarity list are empty, the merge
\* raises no error and returns an empty list.
InvC7 ==
    \A r \in Requests :
        BothEmpty(r) =>
            /\ frame[r].pc # "raised"
            /\ final_scores[r] = <<>>
            /\ frame[r].recommended_ids = <<>>
            /\ frame[r].result = <<>>

WitC7 ==
    \E r \in Requests :
        /\ BothEmpty(r)
        /\ frame[r].pc = "done"
        /\ frame[r].count >= 1
        /\ frame[r].result = <<>>

\* The order in which the identifiers of request r enter the score mapping:
\* the graph list in its order, then the identifiers only the similarity
\* list has, in similarity-list order.
InsertionOrder(r) ==
    LET similar_ids == [k \in DOMAIN frame[r].similar_videos |->
                            frame[r].similar_videos[k].id]
        NotInGraph(id) == id \notin GraphIds(r)
    IN  frame[r].graph_videos \o SelectSeq(similar_ids, NotInGraph)

Position(seq, x) == CHOOSE k \in DOMAIN seq : seq[k] = x

\* C8: identifiers with equal merged score keep insertion order in the
\* ranking: graph-list identifiers in graph-list order, before identifiers
\* only the similarity list has, in similarity-list order.
InvC8 ==
    \A r \in Requests :
        Ranked(r) =>
            \A a, b \in DOMAIN frame[r].recommended_ids :
                (a < b /\ frame[r].recommended_ids[a][2] = frame[r].recommended_ids[b][2])
                => Position(InsertionOrder(r), frame[r].recommended_ids[a][1])
                       < Position(InsertionOrder(r), frame[r].recommended_ids[b][1])

\* A tie between a graph identifier and a similarity-only identifier.
WitC8 ==
    \E r \in Requests :
        /\ Ranked(r)
        /\ \E a, b \in DOMAIN frame[r].recommended_ids :
               /\ a < b
               /\ frame[r].recommended_ids[a][2] = frame[r].recommended_ids[b][2]
               /\ frame[r].recommended_ids[a][2] > 0
               /\ frame[r].recommended_ids[a][1] \in GraphIds(r)
               /\ frame[r].recommended_ids[b][1] \notin GraphIds(r)

\* ------------------------------------------ interleaved specification ---
\* Two hybrid requests in flight at once, request r on behalf of user r.
\* Users 1 and 2 share video 1, user 2 has video 2 as well; one vector is
\* indexed.
InitInterleaved ==
    /\ user_interactions =
           [u \in Users |-> [v \in Videos |->
               IF (u = 1 /\ v = 1) \/ (u = 2 /\ v <= 2) THEN 1 ELSE 0]]
    /\ video_interactions = Mirror(user_interactions)
    /\ videos = Videos
    /\ index = {1}
    /\ index_exists = TRUE
    /\ vector_service = Uninitialized
    /\ InitFrames

NextInterleaved ==
    \E r \in Requests :
        \/ \E count \in 1..2, graph_weight \in {1, WeightDen} :
               Call(r, "hybrid", r, count, graph_weight)
        \/ GetUserRecentVideos(r)
        \/ SearchSimilar(r)
        \/ GraphInteractions(r)
        \/ GraphSimilarUsers(r)
        \/ GraphRankUsers(r)
        \/ GraphUserVideos(r)
        \/ GraphReturn(r)
        \/ StartMerge(r)
        \/ MergeGraph(r)
        \/ MergeGraphDone(r)
        \/ MergeSimilar(r)
        \/ SortAndSelect(r)
        \/ GetVideosByIds(r)
        \/ Return(r)

SpecInterleaved == InitInterleaved /\ [][NextInterleaved]_vars

\* What the merge returns for these inputs when nothing else runs: the two
\* loops and the selection, one after the other, on a fresh mapping.
RECURSIVE GraphLoop(_, _, _, _, _)
GraphLoop(scores, graph_videos, i, count, graph_weight) ==
    IF i >= Len(graph_videos) THEN scores
    ELSE GraphLoop(Accumulate(scores, graph_videos[i + 1],
                              GraphContribution(i, count, graph_weight)),
                   graph_videos, i + 1, count, graph_weight)

RECURSIVE SimilarLoop(_, _, _)
SimilarLoop(scores, similar_videos, graph_weight) ==
    IF similar_videos = <<>> THEN scores
    ELSE SimilarLoop(Accumulate(scores, Head(similar_videos).id,
                                SimilarityContribution(graph_weight,
                                                       Head(similar_videos).score)),
                     Tail(similar_videos), graph_weight)

RunAlone(graph_videos, similar_videos, graph_weight, count) ==
    SelectTop(SimilarLoop(GraphLoop(<<>>, graph_videos, 0, count, graph_weight),
                          similar_videos, graph_weight),
              count)

\* The result of request r is the one its own inputs give when run alone.
ResultAsAlone(r) ==
    /\ Ranked(r) =>
          frame[r].recommended_ids =
              RunAlone(frame[r].graph_videos, frame[r].similar_videos,
                       frame[r].graph_weight, frame[r].count)
    /\ (frame[r].op = "hybrid" /\ frame[r].pc = "done") =>
          /\ NoDuplicates(frame[r].result)
          /\ Range(frame[r].result) = Range(Ranking(r)) \cap videos

MidMerge(r) ==
    /\ frame[r].pc \in {"merge_graph", "merge_similar"}
    /\ final_scores[r] # <<>>

SourceUser(r, v) ==
    LET has == {k \in DOMAIN frame[r].similar_users :
                   v \in Range(QueryDesc(user_interactions[frame[r].similar_users[k]],
                                         UserVideosLimit))}
    IN  frame[r].similar_users[CHOOSE k \in has : \A j \in has : k <= j]

\* Video v has strictly more interaction weight than video w: its similar
\* user has the larger accumulated score, or both come from the same user
\* and v has the larger interactionScore.
Outranks(r, v, w) ==
    LET sv == SourceUser(r, v)
        sw == SourceUser(r, w)
    IN  \/ DictGet(frame[r].user_scores, sv) > DictGet(frame[r].user_scores, sw)
        \/ sv = sw /\ user_interactions[sv][v] > user_interactions[sw][w]

GraphDone(r) == frame[r].op = "graph" /\ frame[r].pc = "done"

\* What C10 says apart from the order: at most limit identifiers, none
\* twice, and none for a user with no recorded interactions.
InvGraphShape ==
    \A r \in Requests :
        GraphDone(r) =>
            /\ Len(frame[r].result) <= frame[r].count
            /\ NoDuplicates(frame[r].result)
            /\ Docs(user_interactions[frame[r].user_id]) = {} => frame[r].result = <<>>

\* C10: get_graph_recommendations returns at most limit neighbour video
\* identifiers, in the order in which the similar users and their videos
\* were ranked (interaction weight descending), without duplicates, and an
\* empty list for a user with no recorded interactions.
ClaimC10 ==
    /\ InvGraphShape
    /\ \A r \in Requests :
           GraphDone(r) =>
               \A a, b \in DOMAIN frame[r].result :
                   a < b => ~Outranks(r, frame[r].result[b], frame[r].result[a])


\* ------------------------------------------------ vendor call sites -----
\* ResearchAgent._tavily_search: max_retries = 3, retry_delay = 1 second.
MaxRetries == 3
RetryDelay == 1
\* HealthService._clean_tags: the number of tags it answers with.
TagCount == 3

AgentTavily   == "ResearchAgent._tavily_search"
ServiceTavily == "ResearchService._tavily_search"
VectorSearch  == "VectorService.search_similar"
CallSites == {AgentTavily, ServiceTavily, VectorSearch}

\* What one HTTP request to api.tavily.com can come back with: a status, a
\* timeout of the client session, or any other exception.
Responses == {"200", "502", "other_status", "timeout", "exception"}
\* Faulty variant: every response but a 200 is tried again.
RetryableAnyFailure == {"502", "other_status", "timeout", "exception"}

\* The responses after which ResearchAgent._tavily_search goes on to
\* `if attempt < max_retries - 1`.
Retryable == {"502", "timeout", "exception"}
\* The failed attempts of any call site.
Failures == {"502", "other_status", "timeout", "exception", "initialize_error",
             "no_client", "embeddings_error", "query_error"}

\* Faulty variant: the same delay before every attempt.
BackoffConstant(attempt) == RetryDelay

\* asyncio.sleep(retry_delay * (attempt + 1))
Backoff(attempt) == RetryDelay * (attempt + 1)

\* logger.error calls of a failed attempt in ResearchAgent._tavily_search.
AgentLogs(response) == IF response = "502" THEN 2 ELSE 1

VendorCall(r, site) ==
    /\ vendor[r].pc = "idle"
    /\ vendor' = [vendor EXCEPT ![r] =
           [IdleVendor EXCEPT !.site = site,
                              !.pc = IF site = VectorSearch THEN "initialize"
                                                            ELSE "request"]]
    /\ UNCHANGED except_vendor

\* One iteration of `for attempt in range(max_retries)`, up to the sleep.
AgentTavilyRequest(r, response) ==
    LET c == vendor[r]
        sent == [c EXCEPT !.responses = Append(c.responses, response)]
    IN  /\ c.site = AgentTavily
        /\ c.pc = "request"
        /\ c.attempt < MaxRetries
        /\ vendor' = [vendor EXCEPT ![r] =
               IF response = "200"
               THEN [sent EXCEPT !.pc = "returned", !.result = "results"]
               ELSE IF response \in Retryable /\ c.attempt < MaxRetries - 1
               THEN [sent EXCEPT !.pc = "sleep",
                                 !.logged = c.logged + AgentLogs(response)]
               ELSE [sent EXCEPT !.pc = "returned", !.result = "empty",
                                 !.logged = c.logged + AgentLogs(response)]]
        /\ UNCHANGED except_vendor

\* await asyncio.sleep(...); continue
AgentTavilySleep(r) ==
    LET c == vendor[r]
    IN  /\ c.site = AgentTavily
        /\ c.pc = "sleep"
        /\ vendor' = [vendor EXCEPT ![r].slept = c.slept + Backoff(c.attempt),
                                    ![r].attempt = c.attempt + 1,
                                    ![r].pc = "request"]
        /\ UNCHANGED except_vendor

\* ResearchService._tavily_search: one GET; data['results'] of a body that
\* has no results, a timeout and any other exception reach the except
\* clause, which logs and raises.
ServiceTavilyRequest(r, response) ==
    LET c == vendor[r]
        sent == [c EXCEPT !.responses = Append(c.responses, response)]
    IN  /\ c.site = ServiceTavily
        /\ c.pc = "request"
        /\ vendor' = [vendor EXCEPT ![r] =
               IF response = "200"
               THEN [sent EXCEPT !.pc = "returned", !.result = "results"]
               ELSE [sent EXCEPT !.pc = "raised", !.result = "raise",
                                 !.logged = c.logged + 1]]
        /\ UNCHANGED except_vendor

\* VectorService.search_similar, lines 152-153: initialize() logs and raises.
SearchSimilarInitialize(r) ==
    LET c == vendor[r]
    IN  /\ c.site = VectorSearch
        /\ c.pc = "initialize"
        /\ \E out \in Initialize(vector_service, index_exists) :
               /\ vector_service' = out.service
               /\ index_exists' = out.index_exists
               /\ vendor' = [vendor EXCEPT ![r] =
                      IF out.raised
                      THEN [c EXCEPT !.pc = "raised", !.result = "raise",
                                     !.logged = c.logged + 1,
                                     !.responses =
                                         Append(c.responses, "initialize_error")]
                      ELSE [c EXCEPT !.pc = "embeddings"]]
        /\ UNCHANGED <<db, frame, final_scores, not_vendor>>

\* Line 157: _generate_embeddings logs and raises, and so does the except
\* clause of search_similar.
SearchSimilarEmbeddings(r) ==
    LET c == vendor[r]
    IN  /\ c.site = VectorSearch
        /\ c.pc = "embeddings"
        /\ \E response \in IF vector_service.openai_client
                           THEN {"embedding", "embeddings_error"}
                           ELSE {"no_client"} :
               vendor' = [vendor EXCEPT ![r] =
                   IF response = "embedding"
                   THEN [c EXCEPT !.pc = "query",
                                  !.responses = Append(c.responses, response)]
                   ELSE [c EXCEPT !.pc = "raised", !.result = "raise",
                                  !.logged = c.logged + 2,
                                  !.responses = Append(c.responses, response)]]
        /\ UNCHANGED except_vendor

\* Lines 160-174: the Pinecone query.
SearchSimilarQuery(r) ==
    LET c == vendor[r]
    IN  /\ c.site = VectorSearch
        /\ c.pc = "query"
        /\ \E response \in {"matches", "query_error"} :
               vendor' = [vendor EXCEPT ![r] =
                   IF response = "matches"
                   THEN [c EXCEPT !.pc = "returned", !.result = "results",
                                  !.responses = Append(c.responses, response)]
                   ELSE [c EXCEPT !.pc = "raised", !.result = "raise",
                                  !.logged = c.logged + 1,
                                  !.responses = Append(c.responses, response)]]
        /\ UNCHANGED except_vendor

VendorReturn(r) ==
    /\ vendor[r].pc \in {"returned", "raised"}
    /\ vendor' = [vendor EXCEPT ![r] = IdleVendor]
    /\ UNCHANGED except_vendor

\* No recommendation request runs; the stores hold no interaction.
InitQuiet ==
    /\ user_interactions = [u \in Users |-> [v \in Videos |-> 0]]
    /\ video_interactions = Mirror(user_interactions)
    /\ videos = Videos
    /\ index = Videos
    /\ index_exists = TRUE
    /\ vector_service = Uninitialized
    /\ InitFrames

InitVendor == InitQuiet

NextVendor ==
    \E r \in Requests :
        \/ \E site \in CallSites : VendorCall(r, site)
        \/ \E response \in Responses : AgentTavilyRequest(r, response)
        \/ AgentTavilySleep(r)
        \/ \E response \in Responses : ServiceTavilyRequest(r, response)
        \/ SearchSimilarInitialize(r)
        \/ SearchSimilarEmbeddings(r)
        \/ SearchSimilarQuery(r)
        \/ VendorReturn(r)

SpecVendor == InitVendor /\ [][NextVendor]_vars

\* A request was sent after an attempt of the same call had failed.
Retried(c) ==
    \E k \in DOMAIN c.responses : k < Len(c.responses) /\ c.responses[k] \in Failures

\* The call has ended after a failed attempt.
EndedFailed(c) ==
    /\ c.pc \in {"returned", "raised"}
    /\ c.responses # <<>>
    /\ c.responses[Len(c.responses)] \in Failures

\* C11 as stated: no call site sends a second request after a failed one,
\* and none waits between attempts.
OrigC11 ==
    \A r \in Requests : ~Retried(vendor[r]) /\ vendor[r].slept = 0

\* 1 + 2 + .. + n
Triangle(n) == (n * (n + 1)) \div 2

\* C11 (amended): ResearchService._tavily_search and
\* VectorService.search_similar make one attempt: a failed attempt is logged
\* and the call raises, with no further request and no delay.
\* ResearchAgent._tavily_search makes up to MaxRetries attempts: it sends
\* another request only after a 502, a timeout or an exception, waits
\* retry_delay * (attempt + 1) seconds before it, and after a failure that
\* ends the call it has logged every failed attempt and returns [].
InvC11 ==
    \A r \in Requests :
        LET c == vendor[r]
        IN  /\ c.site \in {ServiceTavily, VectorSearch} =>
                /\ ~Retried(c)
                /\ c.slept = 0
                /\ EndedFailed(c) =>
                       c.pc = "raised" /\ c.result = "raise" /\ c.logged >= 1
            /\ c.site = AgentTavily =>
                /\ Len(c.responses) <= MaxRetries
                /\ \A k \in DOMAIN c.responses :
                       k < Len(c.responses) => c.responses[k] \in Retryable
                /\ c.slept = RetryDelay * Triangle(c.attempt)
                /\ c.pc = "request" => Len(c.responses) = c.attempt
                /\ c.pc # "request" /\ c.pc # "idle" =>
                       Len(c.responses) = c.attempt + 1
                /\ EndedFailed(c) =>
                       /\ c.pc = "returned" /\ c.result = "empty"
                       /\ c.logged >= Len(c.responses)
                       /\ c.responses[Len(c.responses)] \in Retryable =>
                              Len(c.responses) = MaxRetries

\* ResearchAgent._tavily_search gave up after MaxRetries failed attempts,
\* having waited 1 and then 2 seconds.
WitC11 ==
    \E r \in Requests :
        /\ vendor[r].site = AgentTavily
        /\ EndedFailed(vendor[r])
        /\ Len(vendor[r].responses) = MaxRetries
        /\ vendor[r].slept = RetryDelay * Triangle(MaxRetries - 1)
        /\ vendor[r].result = "empty"

\* Every attempt of ResearchAgent._tavily_search ends (the session has a
\* total timeout of 30 seconds) and every sleep ends.
SpecVendorFair ==
    /\ SpecVendor
    /\ \A r \in Requests :
           /\ WF_vars(\E response \in Responses : AgentTavilyRequest(r, response))
           /\ WF_vars(AgentTavilySleep(r))

\* The attempts of a call of ResearchAgent._tavily_search so far are as
\* the retry policy allows.
TavilyPolicy(c) ==
    LET n == Len(c.responses)
    IN  /\ n <= 3
        /\ c.pc # "raised" /\ c.result # "raise"
        /\ \A k \in 1..(n - 1) : c.responses[k] \in {"502", "timeout", "exception"}
        /\ c.pc = "sleep" =>
               n < 3 /\ c.responses[n] \in {"502", "timeout", "exception"}
        /\ c.pc = "request" => c.slept = Triangle(n) * RetryDelay
        /\ c.pc = "returned" =>
               /\ n >= 1
               /\ c.slept = Triangle(n - 1) * RetryDelay
               /\ c.responses[n] = "200" <=> c.result = "results"
               /\ c.responses[n] # "200" => c.result = "empty"
               /\ c.responses[n] \in {"502", "timeout", "exception"} => n = 3

\* C23: ResearchAgent._tavily_search terminates after at most 3 request
\* attempts and never raises: a 502, a timeout or another exception is
\* followed by a further attempt, after retry_delay * attempt number
\* seconds, only while attempts remain; any other non-200 status returns []
\* at once; a 200 returns its results on that attempt; the third failure
\* returns [].
ThmC23 ==
    /\ [](\A r \in Requests :
              vendor[r].site = AgentTavily => TavilyPolicy(vendor[r]))
    /\ \A r \in Requests :
           (vendor[r].site = AgentTavily /\ vendor[r].pc = "request")
               ~> (vendor[r].site = AgentTavily /\ vendor[r].pc = "returned")

\* A call whose three attempts met a 502, a timeout and an exception slept
\* 1 and 2 seconds between them and returned [].
WitC23 ==
    \E r \in Requests :
        /\ vendor[r].site = AgentTavily
        /\ vendor[r].pc = "returned"
        /\ vendor[r].responses = <<"502", "timeout", "exception">>
        /\ vendor[r].slept = 3 * RetryDelay
        /\ vendor[r].result = "empty"

\* ------------------------------------------------------ agent layer -----
AgentTypes == {"research", "chat", "Research", "video", ""}
\* The "action" strings the classification may return.
Actions == {"recommend_videos", "report_query", "general_chat", "smalltalk", ""}

\* Faulty variant: every agent type but 'research' goes to the chat agent.
RouteTargetDefaultChat(agent_type) ==
    IF agent_type = "research" THEN "ResearchAgent.process"
    ELSE "ChatAgent.process"

\* AgentService.route_request, lines 21-33: the agent an agent_type selects.
RouteTarget(agent_type) ==
    IF agent_type = "research" THEN "ResearchAgent.process"
    ELSE IF agent_type = "chat" THEN "ChatAgent.process"
    ELSE "none"

Invoke(a, function) == [a EXCEPT !.calls = Append(a.calls, function)]
AgentRaise(a, exception) == [a EXCEPT !.pc = "raised", !.outcome = exception]
AgentDone(a, outcome) == [a EXCEPT !.pc = "done", !.outcome = outcome]

\* route_request(agent_type, input_data); valid: input_data has the fields
\* the agent's validate_input requires.
RouteRequest(r, agent_type, valid) ==
    /\ agent[r].pc = "idle"
    /\ agent' = [agent EXCEPT ![r] =
           [IdleAgent EXCEPT !.pc = "route", !.entry = "route_request",
                             !.agent_type = agent_type, !.valid = valid]]
    /\ UNCHANGED except_agent

RouteDispatch(r) ==
    LET a == agent[r]
        target == RouteTarget(a.agent_type)
    IN  /\ a.pc = "route"
        /\ agent' = [agent EXCEPT ![r] =
               IF target = "none" THEN AgentRaise(a, "ValueError")
               ELSE [Invoke(a, target) EXCEPT !.pc = target]]
        /\ UNCHANGED except_agent

\* ResearchAgent.process: ValueError on invalid product data; the summary
\* and the Firestore write may raise; otherwise the report is returned.
ResearchProcess(r) ==
    LET a == agent[r]
    IN  /\ a.pc = "ResearchAgent.process"
        /\ \/ /\ ~a.valid
              /\ agent' = [agent EXCEPT ![r] = AgentRaise(a, "ValueError")]
           \/ /\ a.valid
              /\ \E outcome \in {"response", "Exception"} :
                     agent' = [agent EXCEPT ![r] =
                         IF outcome = "response" THEN AgentDone(a, outcome)
                         ELSE AgentRaise(a, outcome)]
        /\ UNCHANGED except_agent

\* ChatAgent.process: ValueError on invalid input; _search_videos passes
\* namespace= to VectorService.search_similar(cls, query, limit), a
\* TypeError that both except clauses re-raise.
ChatProcess(r) ==
    LET a == agent[r]
    IN  /\ a.pc = "ChatAgent.process"
        /\ agent' = [agent EXCEPT ![r] =
               IF a.valid THEN AgentRaise(Invoke(a, "_search_videos"), "TypeError")
               ELSE AgentRaise(a, "ValueError")]
        /\ UNCHANGED except_agent

\* ChatAgent._generate_response(message, video_ids, session_data)
GenerateResponse(r) ==
    /\ agent[r].pc = "idle"
    /\ agent' = [agent EXCEPT ![r] =
           [IdleAgent EXCEPT !.pc = "analyze", !.entry = "_generate_response"]]
    /\ UNCHANGED except_agent

\* _analyze_request: the completion fails or is not JSON (fallback dict), or
\* it is a JSON object, which may or may not hold the keys asked for.
AnalyzeRequest(r) ==
    LET a == agent[r]
    IN  /\ a.pc = "analyze"
        /\ \E analysis \in
               {[has_action |-> TRUE, action |-> "general_chat", has_query |-> TRUE]}
               \cup [has_action : {TRUE}, action : Actions, has_query : BOOLEAN]
               \cup [has_action : {FALSE}, action : {"none"}, has_query : BOOLEAN] :
               agent' = [agent EXCEPT ![r] =
                   [Invoke(a, "_analyze_request") EXCEPT !.pc = "dispatch",
                                                        !.analysis = analysis]]
        /\ UNCHANGED except_agent

\* Lines 146-151: analysis['action'] and analysis['parsed_query'] are
\* subscripts, a KeyError when the key is missing.
Dispatch(r) ==
    LET a == agent[r]
        an == a.analysis
    IN  /\ a.pc = "dispatch"
        /\ agent' = [agent EXCEPT ![r] =
               IF ~an.has_action THEN AgentRaise(a, "KeyError")
               ELSE IF an.action \in {"recommend_videos", "report_query"}
                       /\ ~an.has_query
               THEN AgentRaise(a, "KeyError")
               ELSE IF an.action = "recommend_videos"
               THEN [Invoke(a, "_handle_video_recommendation") EXCEPT !.pc = "video"]
               ELSE IF an.action = "report_query"
               THEN [Invoke(a, "_handle_report_query") EXCEPT !.pc = "report"]
               ELSE [Invoke(a, "_handle_general_chat") EXCEPT !.pc = "general"]]
        /\ UNCHANGED except_agent

\* _handle_video_recommendation: search_similar(..., namespace=...) raises
\* TypeError, which _generate_response logs and re-raises.
HandleVideoRecommendation(r) ==
    /\ agent[r].pc = "video"
    /\ agent' = [agent EXCEPT ![r] = AgentRaise(agent[r], "TypeError")]
    /\ UNCHANGED except_agent

\* _handle_report_query: the same TypeError is caught by its own except
\* clause, which returns the error text.
HandleReportQuery(r) ==
    /\ agent[r].pc = "report"
    /\ agent' = [agent EXCEPT ![r] = AgentDone(agent[r], "error_text")]
    /\ UNCHANGED except_agent

\* _handle_general_chat: one completion, returned or raised.
HandleGeneralChat(r) ==
    /\ agent[r].pc = "general"
    /\ \E outcome \in {"text", "Exception"} :
           agent' = [agent EXCEPT ![r] =
               IF outcome = "text" THEN AgentDone(agent[r], outcome)
               ELSE AgentRaise(agent[r], outcome)]
    /\ UNCHANGED except_agent

AgentReturn(r) ==
    /\ agent[r].pc \in {"done", "raised"}
    /\ agent' = [agent EXCEPT ![r] = IdleAgent]
    /\ UNCHANGED except_agent

InitAgent == InitQuiet

NextAgent ==
    \E r \in Requests :
        \/ \E agent_type \in AgentTypes, valid \in BOOLEAN :
               RouteRequest(r, agent_type, valid)
        \/ RouteDispatch(r)
        \/ ResearchProcess(r)
        \/ ChatProcess(r)
        \/ GenerateResponse(r)
        \/ AnalyzeRequest(r)
        \/ Dispatch(r)
        \/ HandleVideoRecommendation(r)
        \/ HandleReportQuery(r)
        \/ HandleGeneralChat(r)
        \/ AgentReturn(r)

SpecAgent == InitAgent /\ [][NextAgent]_vars

\* How often a function was invoked in a call.
Invocations(a, function) ==
    Cardinality({k \in DOMAIN a.calls : a.calls[k] = function})

\* route_request has passed its dispatch.
Routed(a) == a.entry = "route_request" /\ a.pc # "route"

\* C12: route_request dispatches on agent_type: 'research' invokes
\* ResearchAgent.process and never ChatAgent.process, 'chat' invokes
\* ChatAgent.process and never ResearchAgent.process, and any other
\* agent_type raises ValueError with neither agent invoked.
InvC12 ==
    \A r \in Requests :
        LET a == agent[r]
        IN  Routed(a) =>
                /\ a.agent_type = "research" =>
                       /\ Invocations(a, "ResearchAgent.process") = 1
                       /\ Invocations(a, "ChatAgent.process") = 0
                /\ a.agent_type = "chat" =>
                       /\ Invocations(a, "ChatAgent.process") = 1
                       /\ Invocations(a, "ResearchAgent.process") = 0
                /\ a.agent_type \notin {"research", "chat"} =>
                       /\ a.calls = <<>>
                       /\ a.pc = "raised"
                       /\ a.outcome = "ValueError"

\* One call was routed to the research agent and answered while another,
\* with an agent type that differs from 'research' only in case, was
\* refused.
WitC12 ==
    \E r, q \in Requests :
        /\ Routed(agent[r]) /\ agent[r].agent_type = "research"
        /\ agent[r].outcome = "response"
        /\ Routed(agent[q]) /\ agent[q].agent_type = "Research"
        /\ agent[q].outcome = "ValueError"

\* The branch handlers of _generate_response.
Handlers ==
    {"_handle_video_recommendation", "_handle_report_query", "_handle_general_chat"}

\* _generate_response has passed its dispatch.
Dispatched(a) ==
    a.entry = "_generate_response" /\ a.pc \notin {"analyze", "dispatch"}

\* The handler C13 names for an action value.
HandlerFor(action) ==
    IF action = "recommend_videos" THEN "_handle_video_recommendation"
    ELSE IF action = "report_query" THEN "_handle_report_query"
    ELSE "_handle_general_chat"

\* Where the classification holds the keys it was asked for, the dispatch
\* is as C13 says: classification first, then the one handler of the action.
InvDispatchWithKeys ==
    \A r \in Requests :
        LET a == agent[r]
        IN  Dispatched(a) /\ a.analysis.has_action /\ a.analysis.has_query =>
                a.calls = <<"_analyze_request", HandlerFor(a.analysis.action)>>

\* C13: for every chat message _generate_response runs the classification
\* first and then exactly one branch handler: video search for
\* 'recommend_videos', report search for 'report_query', general chat
\* otherwise.
ClaimC13 ==
    \A r \in Requests :
        LET a == agent[r]
        IN  Dispatched(a) =>
                /\ Len(a.calls) = 2
                /\ a.calls[1] = "_analyze_request"
                /\ a.calls[2] \in Handlers
                /\ a.analysis.has_action =>
                       a.calls[2] = HandlerFor(a.analysis.action)

\* ---------------------------------- _handle_report_query: deduplication -
\* metadata.get('productUrl', ''): 0 stands for the empty string, also of a
\* result without metadata or without the field.
Urls == 0..NumUrls

\* What _filter_results_with_llm can return: the relevant results sorted by
\* adjusted score, or, when a completion failed, vector_results as they were
\* (some scores already adjusted): results in any order.  The title tells the
\* results apart.
FilteredResults(n) ==
    {[k \in 1..n |-> [title |-> k, url |-> res[k].url, score |-> res[k].score]] :
        res \in [1..n -> [url : Urls, score : 0..MaxRelevance]]}

Values(d) == [k \in DOMAIN d |-> d[k][2]]

\* Faulty variant: the last result of a URL wins whatever its score.
KeepLast(unique_products, result) ==
    IF result.url # 0
    THEN DictSet(unique_products, result.url, result)
    ELSE unique_products

\* Lines 316-326: one iteration of the loop over filtered_results.
KeepHighest(unique_products, result) ==
    IF /\ result.url # 0
       /\ \/ ~HasKey(unique_products, result.url)
          \/ result.score > DictGet(unique_products, result.url).score
    THEN DictSet(unique_products, result.url, result)
    ELSE unique_products

\* sorted(products, key=lambda x: x['score'], reverse=True)
RECURSIVE InsertByScore(_, _)
InsertByScore(sorted, item) ==
    IF sorted = <<>> THEN <<item>>
    ELSE IF Head(sorted).score >= item.score
         THEN <<Head(sorted)>> \o InsertByScore(Tail(sorted), item)
         ELSE <<item>> \o sorted

RECURSIVE SortedByScore(_)
SortedByScore(items) ==
    IF items = <<>> THEN <<>>
    ELSE InsertByScore(SortedByScore(SubSeq(items, 1, Len(items) - 1)),
                       items[Len(items)])

\* Lines 307-314: the filtered results arrive; none, and the handler
\* returns its "couldn't find" text.
ReportQuery(filtered_results) ==
    /\ reducer.pc = "idle"
    /\ reducer' = [IdleReducer EXCEPT
           !.op = "report_query",
           !.input = filtered_results,
           !.i = 1,
           !.pc = IF filtered_results = <<>> THEN "done" ELSE "deduplicate"]
    /\ UNCHANGED except_reducer

\* Lines 315-326.
DeduplicateProduct ==
    /\ reducer.pc = "deduplicate"
    /\ reducer.op = "report_query"
    /\ reducer' = [reducer EXCEPT
           !.unique = KeepHighest(reducer.unique, reducer.input[reducer.i]),
           !.i = reducer.i + 1,
           !.pc = IF reducer.i = Len(reducer.input) THEN "sort" ELSE "deduplicate"]
    /\ UNCHANGED except_reducer

\* Lines 329-333.
SortProducts ==
    /\ reducer.pc = "sort"
    /\ reducer.op = "report_query"
    /\ reducer' = [reducer EXCEPT
           !.output = SortedByScore(Values(reducer.unique)),
           !.pc = "done"]
    /\ UNCHANGED except_reducer

ReducerReturn ==
    /\ reducer.pc \in {"done", "raised"}
    /\ reducer' = IdleReducer
    /\ UNCHANGED except_reducer

InitReport == InitQuiet

NextReport ==
    \/ /\ reducer.pc = "idle"
       /\ \E n \in 0..MaxResults :
              \E filtered_results \in FilteredResults(n) :
                  ReportQuery(filtered_results)
    \/ DeduplicateProduct
    \/ SortProducts
    \/ ReducerReturn

SpecReport == InitReport /\ [][NextReport]_vars

\* The list is sorted by score, descending.
ScoreDescending(list) ==
    \A k \in 1..(Len(list) - 1) : list[k].score >= list[k + 1].score

\* The results of the input that carry the URL.
Sharing(input, url) == {k \in DOMAIN input : input[k].url = url}

\* C14: the deduplication of _handle_report_query keeps, for every
\* non-empty productUrl of the filtered results, exactly one product, one of
\* the results with that URL whose score is the highest among them; it keeps
\* nothing for the empty URL, and the list is sorted by score, descending.
InvC14 ==
    reducer.op = "report_query" /\ reducer.pc = "done" =>
        LET input == reducer.input
            output == reducer.output
        IN  /\ \A url \in Urls \ {0} :
                   Sharing(input, url) # {} =>
                       /\ Cardinality(Sharing(output, url)) = 1
                       /\ \E k \in Sharing(output, url) :
                              /\ output[k] \in Range(input)
                              /\ \A j \in Sharing(input, url) :
                                     output[k].score >= input[j].score
            /\ \A k \in DOMAIN output :
                   output[k].url # 0 /\ Sharing(input, output[k].url) # {}
            /\ ScoreDescending(output)

\* A URL came twice, the higher score second, and another URL with a
\* score higher still came last.
WitC14 ==
    /\ reducer.op = "report_query" /\ reducer.pc = "done"
    /\ Len(reducer.input) = MaxResults
    /\ \E a, b, c \in DOMAIN reducer.input :
           /\ a < b /\ b < c
           /\ reducer.input[a].url = reducer.input[b].url
           /\ reducer.input[a].url # 0
           /\ reducer.input[a].score < reducer.input[b].score
           /\ reducer.input[c].url \notin {0, reducer.input[a].url}
           /\ reducer.input[c].score > reducer.input[b].score
    /\ Len(reducer.output) = 2

\* --------------------------------------- VectorService.search_k_similar -
\* The completion is asked for 5 queries, one per line; how many lines come
\* back is up to the model.
QueryCounts == {1, 2, 3}

\* for results in all_results: for result in results
RECURSIVE Flatten(_)
Flatten(all_results) ==
    IF all_results = <<>> THEN <<>>
    ELSE Head(all_results) \o Flatten(Tail(all_results))

\* Faulty variant: a video id seen before keeps its first score.
KeepFirst(unique_results, result) ==
    IF \A k \in DOMAIN unique_results : unique_results[k].id # result.id
    THEN Append(unique_results, result)
    ELSE unique_results

\* Lines 209-217: one iteration of the inner loop.
KeepBest(unique_results, result) ==
    IF \A k \in DOMAIN unique_results : unique_results[k].id # result.id
    THEN Append(unique_results, result)
    ELSE LET existing_idx ==
                 CHOOSE k \in DOMAIN unique_results : unique_results[k].id = result.id
         IN  IF result.score > unique_results[existing_idx].score
             THEN [unique_results EXCEPT ![existing_idx] = result]
             ELSE unique_results

\* Lines 203-217 over the flattened results.
RECURSIVE DeduplicateResults(_)
DeduplicateResults(results) ==
    IF results = <<>> THEN <<>>
    ELSE KeepBest(DeduplicateResults(SubSeq(results, 1, Len(results) - 1)),
                  results[Len(results)])

\* Lines 179-180: initialize() when _instance is not set.
SearchKSimilar(limit) ==
    /\ reducer.pc = "idle"
    /\ \E out \in Initialize(vector_service, index_exists) :
           /\ vector_service' = out.service
           /\ index_exists' = out.index_exists
           /\ reducer' = [IdleReducer EXCEPT
                  !.op = "search_k_similar",
                  !.limit = limit,
                  !.pc = IF out.raised THEN "raised" ELSE "queries"]
    /\ UNCHANGED <<db, frame, final_scores, not_reducer>>

\* Lines 184-195: the completion that writes the queries; i is their number.
GenerateQueries ==
    /\ reducer.pc = "queries"
    /\ \/ \E n \in QueryCounts :
              reducer' = [reducer EXCEPT !.i = n, !.pc = "gather"]
       \/ reducer' = [reducer EXCEPT !.pc = "raised"]
    /\ UNCHANGED except_reducer

\* Lines 199-200: asyncio.gather of one search_similar per query; the
\* results come back in the order of the queries, and an exception of any
\* search leaves the call.
GatherSearches ==
    /\ reducer.pc = "gather"
    /\ \/ /\ vector_service.openai_client
          /\ \E all_results \in [1..reducer.i -> RankedMatches(index, reducer.limit)] :
                 reducer' = [reducer EXCEPT !.input = all_results, !.pc = "merge"]
       \/ reducer' = [reducer EXCEPT !.pc = "raised"]
    /\ UNCHANGED except_reducer

\* Lines 203-223.
MergeResults ==
    /\ reducer.pc = "merge"
    /\ LET unique_results == DeduplicateResults(Flatten(reducer.input))
       IN  reducer' = [reducer EXCEPT
               !.unique = unique_results,
               !.output = Take(SortedByScore(unique_results), reducer.limit),
               !.pc = "done"]
    /\ UNCHANGED except_reducer

\* Two vectors are indexed.
InitKSimilar ==
    /\ user_interactions = [u \in Users |-> [v \in Videos |-> 0]]
    /\ video_interactions = Mirror(user_interactions)
    /\ videos = Videos
    /\ index = {1, 2}
    /\ index_exists \in BOOLEAN
    /\ vector_service = Uninitialized
    /\ InitFrames

NextKSimilar ==
    \/ \E limit \in 1..MaxLimit : SearchKSimilar(limit)
    \/ GenerateQueries
    \/ GatherSearches
    \/ MergeResults
    \/ ReducerReturn

SpecKSimilar == InitKSimilar /\ [][NextKSimilar]_vars

\* The matches of all queries, and the video ids among them.
AllMatches == Flatten(reducer.input)
MatchedIds == {AllMatches[k].id : k \in DOMAIN AllMatches}

\* C15: search_k_similar returns each video id at most once, with the
\* highest score any query gave that id, sorted by score descending, and
\* only the first `limit` of them.
InvC15 ==
    reducer.op = "search_k_similar" /\ reducer.pc = "done" =>
        LET output == reducer.output
        IN  /\ \A a, b \in DOMAIN output : a # b => output[a].id # output[b].id
            /\ \A k \in DOMAIN output :
                   /\ output[k] \in Range(AllMatches)
                   /\ \A j \in DOMAIN AllMatches :
                          AllMatches[j].id = output[k].id =>
                              output[k].score >= AllMatches[j].score
            /\ ScoreDescending(output)
            /\ Len(output) = Min(reducer.limit, Cardinality(MatchedIds))

\* Two queries matched the same video, the later with the higher score,
\* and more videos matched than the limit lets through.
WitC15 ==
    /\ reducer.op = "search_k_similar" /\ reducer.pc = "done"
    /\ \E p, q \in DOMAIN reducer.input :
           /\ p < q
           /\ \E a \in DOMAIN reducer.input[p], b \in DOMAIN reducer.input[q] :
                  /\ reducer.input[p][a].id = reducer.input[q][b].id
                  /\ reducer.input[p][a].score < reducer.input[q][b].score
    /\ Cardinality(MatchedIds) > reducer.limit
    /\ Len(reducer.output) = reducer.limit

\* ------------------------------------------------- singleton services ---
\* Faulty variant: initialize guarded by _app, which nothing assigns.
FirebaseNeedsInitializeApp(fb) == ~fb.app

\* FirebaseService.initialize, line 19: `if not cls._instance`.
FirebaseNeedsInitialize(fb) == ~fb.instance

\* FirebaseService.initialize: the credentials, initialize_app (stored in
\* _instance), firestore.client() (_db), storage.bucket() (_bucket), in this
\* order; each may raise and what was stored before stays stored.  _app is
\* assigned nowhere.  apps: successful initialize_app calls.
FirebaseInitialize(fb) ==
    IF ~FirebaseNeedsInitialize(fb)
    THEN {[firebase |-> fb, raised |-> FALSE, apps |-> 0]}
    ELSE LET with_app == [fb EXCEPT !.instance = TRUE]
             with_db == [with_app EXCEPT !.db = TRUE]
             with_bucket == [with_db EXCEPT !.bucket = TRUE]
         IN  {[firebase |-> fb,          raised |-> TRUE,  apps |-> 0],
              [firebase |-> with_app,    raised |-> TRUE,  apps |-> 1],
              [firebase |-> with_db,     raised |-> TRUE,  apps |-> 1],
              [firebase |-> with_bucket, raised |-> FALSE, apps |-> 1]}

\* `if not cls.<attribute>: cls.initialize()` of the three getters.
InitializeUnless(stored, fb) ==
    IF stored THEN {[firebase |-> fb, raised |-> FALSE, apps |-> 0]}
    ELSE FirebaseInitialize(fb)

\* `return cls.<attribute>`: the object, or None when it was never stored.
Returned(stored, object) == IF stored THEN object ELSE "None"

\* The bookkeeping of one call of FirebaseService.
FirebaseCalled(op, out, result) ==
    singletons' = [singletons EXCEPT
        !.firebase = out.firebase,
        !.apps = singletons.apps + out.apps,
        !.calls = singletons.calls + 1,
        !.last = [op |-> op, raised |-> out.raised,
                  result |-> IF out.raised THEN "none" ELSE result,
                  reused |-> singletons.firebase.instance]]

FirebaseInitializeCall ==
    /\ singletons.calls < MaxCalls
    /\ \E out \in FirebaseInitialize(singletons.firebase) :
           FirebaseCalled("initialize", out, "None")
    /\ UNCHANGED except_singletons

GetDb ==
    /\ singletons.calls < MaxCalls
    /\ \E out \in InitializeUnless(singletons.firebase.instance, singletons.firebase) :
           FirebaseCalled("get_db", out, Returned(out.firebase.db, "db"))
    /\ UNCHANGED except_singletons

GetApp ==
    /\ singletons.calls < MaxCalls
    /\ \E out \in InitializeUnless(singletons.firebase.app, singletons.firebase) :
           FirebaseCalled("get_app", out, Returned(out.firebase.app, "app"))
    /\ UNCHANGED except_singletons

GetBucket ==
    /\ singletons.calls < MaxCalls
    /\ \E out \in InitializeUnless(singletons.firebase.bucket, singletons.firebase) :
           FirebaseCalled("get_bucket", out, Returned(out.firebase.bucket, "bucket"))
    /\ UNCHANGED except_singletons

\* VectorService.initialize(), as health_check and every search call it.
VectorInitializeCall ==
    /\ singletons.calls < MaxCalls
    /\ \E out \in Initialize(vector_service, index_exists) :
           /\ vector_service' = out.service
           /\ index_exists' = out.index_exists
           /\ singletons' = [singletons EXCEPT
                  !.clients = singletons.clients + out.clients,
                  !.indexes = singletons.indexes + out.indexes,
                  !.calls = singletons.calls + 1,
                  !.last = [op |-> "VectorService.initialize",
                            raised |-> out.raised, result |-> "none",
                            reused |-> vector_service.instance]]
    /\ UNCHANGED <<db, frame, final_scores, not_singletons>>

\* A new process.
InitSingletons ==
    /\ user_interactions = [u \in Users |-> [v \in Videos |-> 0]]
    /\ video_interactions = Mirror(user_interactions)
    /\ videos = Videos
    /\ index = Videos
    /\ index_exists \in BOOLEAN
    /\ vector_service = Uninitialized
    /\ InitFrames

NextSingletons ==
    \/ FirebaseInitializeCall
    \/ GetDb
    \/ GetApp
    \/ GetBucket
    \/ VectorInitializeCall

SpecSingletons == InitSingletons /\ [][NextSingletons]_vars

\* C16 as stated: no client of either service is constructed successfully
\* more than once.
OrigC16 ==
    /\ singletons.apps <= 1
    /\ singletons.clients <= 1
    /\ singletons.indexes <= 1

\* C16 (amended): the instance each service stores (the Firebase app in
\* FirebaseService._instance, the Pinecone index handle in
\* VectorService._instance) is constructed at most once, on the first call
\* that gets that far, and is stored exactly when it was constructed; once
\* it is stored, later calls construct nothing and leave the stored
\* attributes as they are.  (A Pinecone client may be constructed again
\* while no index handle is stored.)
ThmC16 ==
    /\ [](/\ singletons.apps <= 1
          /\ singletons.indexes <= 1
          /\ singletons.firebase.instance <=> singletons.apps = 1
          /\ vector_service.instance <=> singletons.indexes = 1)
    /\ [][/\ singletons.firebase.instance =>
                 /\ singletons'.firebase = singletons.firebase
                 /\ singletons'.apps = singletons.apps
          /\ vector_service.instance =>
                 /\ vector_service' = vector_service
                 /\ singletons'.clients = singletons.clients
                 /\ singletons'.indexes = singletons.indexes]_vars

\* Both instances are stored, the Pinecone one on a second attempt, and a
\* call has been made since.
WitC16 ==
    /\ singletons.firebase.instance /\ singletons.apps = 1
    /\ vector_service.instance /\ singletons.indexes = 1
    /\ singletons.clients = 2
    /\ singletons.last.reused
    /\ ~singletons.last.raised

\* C17: whenever get_app returns without raising, it returns the
\* initialized app, never None.
ClaimC17 ==
    singletons.last.op = "get_app" /\ ~singletons.last.raised =>
        singletons.last.result = "app"

\* --------------------------------------------------- router handlers ----
Endpoints ==
    {"get_video", "analyze_video", "analyze_video_by_id", "vectorize_video",
     "update_video", "submit_rating_feedback"}

\* The Authorization header: absent, present without the 'Bearer ' prefix,
\* a bearer token verify_id_token refuses, or one it accepts.
Auths == {"missing", "not_bearer", "invalid", "valid"}

\* The request body or query of a handler: "malformed" is a body that is not
\* JSON, "incomplete" a JSON body without videoUrl, "out_of_range" a rating
\* outside [0, 1].
Payloads(handler) ==
    IF handler = "analyze_video" THEN {"ok", "malformed", "incomplete"}
    ELSE IF handler = "update_video" THEN {"ok", "malformed"}
    ELSE IF handler = "submit_rating_feedback" THEN {"ok", "out_of_range"}
    ELSE {"ok"}

\* The handlers with an `except HTTPException: raise` clause ahead of their
\* `except Exception` (video_router.py lines 152-154).
ReraisesHttpException(handler) == handler = "analyze_video"

\* What the client gets when the handler raises HTTPException(code) inside
\* its try block: the other handlers catch it as an Exception and raise
\* HTTPException(500).
ClientStatus(handler, code) ==
    IF ReraisesHttpException(handler) THEN code ELSE 500

Reject(q, code) ==
    [q EXCEPT !.rejected = code, !.status = ClientStatus(q.handler, code),
              !.pc = "done"]
\* An exception that is not the handler's refusal.
Fail(q) == [q EXCEPT !.status = 500, !.pc = "done"]
Succeed(q) == [q EXCEPT !.status = 200, !.pc = "done"]

\* Faulty variant: the status is written, the data is dropped.
UpdateVideoStatusOnly(doc, status, data, r) ==
    [doc EXCEPT !.analysisStatus = status, !.writer = r]

\* DatabaseService.update_video_status: analysisStatus and, of data, the
\* keys healthAnalysis, healthImpactScore, vectorId and vectorMetadata, in
\* one update.
UpdateVideoStatus(doc, status, data, r) ==
    [doc EXCEPT !.analysisStatus = status,
                !.healthImpactScore = @ \/ "healthImpactScore" \in data,
                !.healthAnalysis = @ \/ "healthAnalysis" \in data,
                !.vectorId = @ \/ "vectorId" \in data,
                !.writer = r]

HttpRequest(r, handler, auth, target, owner, payload) ==
    /\ http[r].pc = "idle"
    /\ http' = [http EXCEPT ![r] =
           [IdleHttp EXCEPT
               !.handler = handler, !.auth = auth, !.target = target,
               !.owner = owner, !.payload = payload,
               !.pc = IF handler = "analyze_video" THEN "body"
                      ELSE IF handler = "submit_rating_feedback" THEN "rating"
                      ELSE "auth"]]
    /\ UNCHANGED <<video_doc, except_router>>

\* analyze_video, lines 70-75.
ParseBody(r) ==
    /\ http[r].pc = "body"
    /\ http' = [http EXCEPT ![r] =
           IF http[r].payload = "malformed" THEN Reject(http[r], 400)
           ELSE [http[r] EXCEPT !.pc = "auth"]]
    /\ UNCHANGED <<video_doc, except_router>>

\* The header check and auth.verify_id_token of the five video handlers.
Authenticate(r) ==
    LET q == http[r]
    IN  /\ q.pc = "auth"
        /\ http' = [http EXCEPT ![r] =
               IF q.auth # "valid" THEN Reject(q, 401)
               ELSE [q EXCEPT !.pc =
                        IF q.handler = "analyze_video" THEN "url"
                        ELSE IF q.handler = "update_video" THEN "update"
                        ELSE "load"]]
        /\ UNCHANGED <<video_doc, except_router>>

\* analyze_video, lines 92-95.
CheckVideoUrl(r) ==
    /\ http[r].pc = "url"
    /\ http' = [http EXCEPT ![r] =
           IF http[r].payload = "incomplete" THEN Reject(http[r], 400)
           ELSE [http[r] EXCEPT !.pc = "load"]]
    /\ UNCHANGED <<video_doc, except_router>>

\* get_video_by_id / get_video_document: the read may raise; no document is
\* a 404.
LoadVideo(r) ==
    LET q == http[r]
    IN  /\ q.pc = "load"
        /\ \/ http' = [http EXCEPT ![r] = Fail(q)]
           \/ http' = [http EXCEPT ![r] =
                  IF q.target = "missing" THEN Reject(q, 404)
                  ELSE IF q.handler = "get_video" THEN Succeed(q)
                  ELSE IF q.handler = "vectorize_video"
                       THEN [q EXCEPT !.pc = "vectorize"]
                  ELSE [q EXCEPT !.pc = "owner"]]
        /\ UNCHANGED <<video_doc, except_router>>

\* video_data.get('userId') != decoded_token['uid']
CheckOwner(r) ==
    /\ http[r].pc = "owner"
    /\ http' = [http EXCEPT ![r] =
           IF http[r].owner THEN [http[r] EXCEPT !.pc = "processing"]
           ELSE Reject(http[r], 403)]
    /\ UNCHANGED <<video_doc, except_router>>

\* update_video_status(video_id, 'processing'); it raises ValueError when
\* the write fails.
WriteProcessing(r) ==
    LET q == http[r]
    IN  /\ q.pc = "processing"
        /\ \/ /\ video_doc' = UpdateVideoStatus(video_doc, "processing", {}, r)
              /\ http' = [http EXCEPT ![r].wrote = "processing",
                                      ![r].pc = "content"]
           \/ /\ http' = [http EXCEPT ![r] = Fail(q)]
              /\ UNCHANGED video_doc
        /\ UNCHANGED except_router

\* An analysis raised: analyze_video goes to its inner except clause,
\* analyze_video_by_id to its only one.
AnalysisRaised(q) ==
    IF q.handler = "analyze_video" THEN [q EXCEPT !.pc = "failed"] ELSE Fail(q)

\* VideoService.analyze_video_content
AnalyzeContent(r) ==
    /\ http[r].pc = "content"
    /\ \/ http' = [http EXCEPT ![r].pc = "health"]
       \/ http' = [http EXCEPT ![r] = AnalysisRaised(http[r])]
    /\ UNCHANGED <<video_doc, except_router>>

\* HealthService.analyze_health_impact
AnalyzeHealth(r) ==
    /\ http[r].pc = "health"
    /\ \/ http' = [http EXCEPT ![r].pc = "completed", ![r].analysed = TRUE]
       \/ http' = [http EXCEPT ![r] = AnalysisRaised(http[r])]
    /\ UNCHANGED <<video_doc, except_router>>

\* update_video_status(video_id, 'completed', {healthImpactScore,
\* healthAnalysis}), inside the same try as the analyses.
WriteCompleted(r) ==
    LET q == http[r]
    IN  /\ q.pc = "completed"
        /\ \/ /\ video_doc' = UpdateVideoStatus(video_doc, "completed",
                                  {"healthImpactScore", "healthAnalysis"}, r)
              /\ http' = [http EXCEPT ![r] = Succeed([q EXCEPT !.wrote = "completed"])]
           \/ /\ http' = [http EXCEPT ![r] = AnalysisRaised([q EXCEPT !.raised = @ \cup {"completed"}])]
              /\ UNCHANGED video_doc
        /\ UNCHANGED except_router

\* analyze_video, lines 138-143: update_video_status(video_id, 'failed',
\* {'error': ...}) and HTTPException(500); when the write raises, its
\* ValueError reaches the outer except clause, a 500 as well.
WriteFailed(r) ==
    LET q == http[r]
    IN  /\ q.pc = "failed"
        /\ \/ /\ video_doc' = UpdateVideoStatus(video_doc, "failed", {"error"}, r)
              /\ http' = [http EXCEPT ![r] = Fail([q EXCEPT !.wrote = "failed"])]
           \/ /\ http' = [http EXCEPT ![r] = Fail([q EXCEPT !.raised = @ \cup {"failed"}])]
              /\ UNCHANGED video_doc
        /\ UNCHANGED except_router

\* vectorize_video, lines 237-249.
VectorizeVideo(r) ==
    LET q == http[r]
    IN  /\ q.pc = "vectorize"
        /\ \/ /\ video_doc' = UpdateVideoStatus(video_doc, "vectorized",
                                  {"vectorId", "vectorMetadata"}, r)
              /\ http' = [http EXCEPT ![r] = Succeed([q EXCEPT !.wrote = "vectorized"])]
           \/ /\ http' = [http EXCEPT ![r] = Fail(q)]
              /\ UNCHANGED video_doc
        /\ UNCHANGED except_router

\* update_video, lines 274-282: request.json() and db_service.update_video,
\* whose "not found" and "no permission" are ValueErrors; otherwise
\* doc_ref.update(data) writes the fields of the body.
UpdateVideo(r) ==
    LET q == http[r]
    IN  /\ q.pc = "update"
        /\ \/ /\ q.payload = "ok" /\ q.target = "video" /\ q.owner
              /\ video_doc' = [video_doc EXCEPT !.updated = TRUE, !.writer = r]
              /\ http' = [http EXCEPT ![r] = Succeed(q)]
           \/ /\ http' = [http EXCEPT ![r] = Fail(q)]
              /\ UNCHANGED video_doc
        /\ UNCHANGED except_router

\* submit_rating_feedback, lines 250-278.
SubmitRating(r) ==
    LET q == http[r]
    IN  /\ q.pc = "rating"
        /\ \/ http' = [http EXCEPT ![r] =
                  IF q.payload = "out_of_range" THEN Reject(q, 400) ELSE Succeed(q)]
           \/ /\ q.payload = "ok"
              /\ http' = [http EXCEPT ![r] = Fail(q)]
        /\ UNCHANGED <<video_doc, except_router>>

HttpRespond(r) ==
    /\ http[r].pc = "done"
    /\ http' = [http EXCEPT ![r] = IdleHttp]
    /\ UNCHANGED <<video_doc, except_router>>

InitRouter == InitQuiet

\* One request at a time, any handler.
NextRouter ==
    \/ \E handler \in Endpoints, auth \in Auths, target \in {"video", "missing"},
          owner \in BOOLEAN :
           \E payload \in Payloads(handler) :
               HttpRequest(1, handler, auth, target, owner, payload)
    \/ ParseBody(1)
    \/ Authenticate(1)
    \/ CheckVideoUrl(1)
    \/ LoadVideo(1)
    \/ CheckOwner(1)
    \/ WriteProcessing(1)
    \/ AnalyzeContent(1)
    \/ AnalyzeHealth(1)
    \/ WriteCompleted(1)
    \/ WriteFailed(1)
    \/ VectorizeVideo(1)
    \/ UpdateVideo(1)
    \/ SubmitRating(1)
    \/ HttpRespond(1)

SpecRouter == InitRouter /\ [][NextRouter]_vars

\* The handler with the `except HTTPException: raise` clause passes its
\* refusals on unchanged.
InvAnalyzeVideoStatus ==
    \A r \in Requests :
        http[r].handler = "analyze_video" /\ http[r].rejected # 0 =>
            http[r].status = http[r].rejected

\* C18: when a handler refuses a request with 401, 404, 403 or 400, the
\* client receives that status, in every handler.
ClaimC18 ==
    \A r \in Requests :
        http[r].pc = "done" /\ http[r].rejected # 0 =>
            http[r].status = http[r].rejected

\* The handlers that check the token's uid against the document's userId
\* write only for the owner of an existing video.
OwnerCheckedWrites ==
    [][\A r \in Requests :
           /\ video_doc' # video_doc
           /\ video_doc'.writer = r
           /\ http[r].handler \in {"analyze_video", "analyze_video_by_id", "update_video"}
           => http[r].owner /\ http[r].target = "video"]_vars

\* C21: a video router handler modifies the video document only for the
\* owner of an existing video; for a non-owner or a missing video the
\* document is left unchanged.
ClaimC21 ==
    [][\A r \in Requests :
           video_doc' # video_doc /\ video_doc'.writer = r
           => http[r].owner /\ http[r].target = "video"]_vars

\* ------------------------------------------- POST /videos/analyze ----
InitAnalyze == InitQuiet

\* Two requests for the same video, interleaved at their awaits.
NextAnalyze ==
    \E r \in Requests :
        \/ \E auth \in Auths, target \in {"video", "missing"}, owner \in BOOLEAN,
              payload \in Payloads("analyze_video") :
               HttpRequest(r, "analyze_video", auth, target, owner, payload)
        \/ ParseBody(r)
        \/ Authenticate(r)
        \/ CheckVideoUrl(r)
        \/ LoadVideo(r)
        \/ CheckOwner(r)
        \/ WriteProcessing(r)
        \/ AnalyzeContent(r)
        \/ AnalyzeHealth(r)
        \/ WriteCompleted(r)
        \/ WriteFailed(r)
        \/ HttpRespond(r)

SpecAnalyze == InitAnalyze /\ [][NextAnalyze]_vars

\* The handler of request r ended after its 'processing' write.
EndedAfterProcessing(r) ==
    /\ http[r].handler = "analyze_video"
    /\ http[r].pc = "done"
    /\ http[r].wrote # "none"

\* C20 as stated: when the handler ends after the 'processing' write, the
\* video's analysisStatus is 'completed' if both analyses succeeded and
\* 'failed' if either raised.
OrigC20 ==
    \A r \in Requests :
        EndedAfterProcessing(r) =>
            video_doc.analysisStatus =
                (IF http[r].analysed THEN "completed" ELSE "failed")

\* The status a handler has written last when it ends, given which of its
\* status writes raised.
LastWritten(q) ==
    IF q.analysed /\ "completed" \notin q.raised THEN "completed"
    ELSE IF "failed" \notin q.raised THEN "failed"
    ELSE "processing"

\* C20, amended: the handler writes 'processing' before any analysis call
\* starts; when it ends after that write, the status it wrote last is
\* 'completed' if both analyses and the completing write succeeded, 'failed'
\* if one of them raised and the 'failed' write succeeded, and still
\* 'processing' if the 'failed' write raised too, and it answers 200 exactly
\* when it wrote 'completed'; the document holds that status unless another
\* request wrote it since; a document with status 'completed' has a
\* healthImpactScore and a healthAnalysis.
InvC20 ==
    /\ \A r \in Requests :
           LET q == http[r]
           IN  /\ q.pc \in {"content", "health", "completed"} =>
                      q.wrote = "processing"
               /\ q.pc \in {"body", "auth", "url", "load", "owner", "processing"} =>
                      q.wrote = "none" /\ ~q.analysed
               /\ EndedAfterProcessing(r) =>
                      /\ q.wrote = LastWritten(q)
                      /\ q.status = 200 <=> q.wrote = "completed"
                      /\ q.status \in {200, 500}
               /\ q.wrote # "none" /\ video_doc.writer = r =>
                      video_doc.analysisStatus = q.wrote
    /\ video_doc.analysisStatus = "completed" =>
           video_doc.healthImpactScore /\ video_doc.healthAnalysis

\* Both analyses succeeded, the completing write raised, and the handler
\* left the video 'failed'.
WitC20 ==
    \E r \in Requests :
        /\ EndedAfterProcessing(r)
        /\ http[r].analysed
        /\ http[r].raised = {"completed"}
        /\ video_doc.writer = r
        /\ video_doc.analysisStatus = "failed"

\* The plain case: both analyses and the completing write succeeded.
WitC20Completed ==
    \E r \in Requests :
        /\ EndedAfterProcessing(r)
        /\ http[r].wrote = "completed"
        /\ http[r].status = 200
        /\ video_doc.writer = r
        /\ video_doc.analysisStatus = "completed"
        /\ video_doc.healthImpactScore

\* ----------------------------------------- HealthService._clean_tags ----
\* A string is a sequence of characters.
IsSpace(c) == c = " "

LowerChar(c) ==
    CASE c = "A" -> "a"
      [] c = "B" -> "b"
      [] c = "C" -> "c"
      [] OTHER -> c

\* str.lower
Lower(s) == [i \in DOMAIN s |-> LowerChar(s[i])]

RECURSIVE LStrip(_)
LStrip(s) ==
    IF s # <<>> /\ IsSpace(Head(s)) THEN LStrip(Tail(s)) ELSE s

RECURSIVE RStrip(_)
RStrip(s) ==
    IF s # <<>> /\ IsSpace(s[Len(s)]) THEN RStrip(SubSeq(s, 1, Len(s) - 1))
    ELSE s

\* str.strip
Strip(s) == RStrip(LStrip(s))

\* The length of the run of non-space characters s starts with.
RECURSIVE WordLen(_)
WordLen(s) ==
    IF s = <<>> \/ IsSpace(Head(s)) THEN 0 ELSE 1 + WordLen(Tail(s))

\* str.split(): the words between runs of whitespace.
RECURSIVE Split(_)
Split(s) ==
    LET t == LStrip(s)
    IN  IF t = <<>> THEN <<>>
        ELSE <<SubSeq(t, 1, WordLen(t))>>
                 \o Split(SubSeq(t, WordLen(t) + 1, Len(t)))

\* [tag.strip().lower().split()[0] for tag in tags if tag.strip()]
RECURSIVE CleanEach(_)
CleanEach(tags) ==
    IF tags = <<>> THEN <<>>
    ELSE IF Strip(Head(tags)) = <<>> THEN CleanEach(Tail(tags))
    ELSE <<Split(Lower(Strip(Head(tags))))[1]>> \o CleanEach(Tail(tags))

\* list(dict.fromkeys(words)): the first occurrence of each word, in order.
RECURSIVE FromKeys(_)
FromKeys(words) ==
    IF words = <<>> THEN <<>>
    ELSE <<Head(words)>>
             \o FromKeys(SelectSeq(Tail(words), LAMBDA w : w # Head(words)))

Healthy == <<"h", "e", "a", "l", "t", "h", "y">>
Unhealthy == <<"u", "n">> \o Healthy
Neutral == <<"n", "e", "u", "t", "r", "a", "l">>

\* Faulty variant: a zero score pads like a positive one.
PadWordNonNegative(score) ==
    IF score >= 0 THEN Healthy ELSE Unhealthy

\* The word the while loop appends.
PadWord(score) ==
    IF score > 0 THEN Healthy
    ELSE IF score < 0 THEN Unhealthy
    ELSE Neutral

\* The tags the model answers with: empty, blank, padded with spaces, upper
\* case, several words, and enough distinct words to overflow three.
TagPool ==
    { <<>>, <<" ">>, <<"a">>, <<"A">>, <<" ", "B", " ", "a">>, <<"b">>,
      <<"C", " ">>, <<"d">> }

TagLists == UNION {[1..n -> TagPool] : n \in 0..MaxTags}

\* float(analysis['score']): its sign is all _clean_tags looks at.
HealthScores == {-1, 0, 1}

CleanTagsCall(tags, score) ==
    /\ cleaner.pc = "idle"
    /\ cleaner' = [pc |-> "clean", tags |-> tags, score |-> score,
                   clean_tags |-> <<>>]
    /\ UNCHANGED except_cleaner

CleanTagsComprehension ==
    /\ cleaner.pc = "clean"
    /\ cleaner' = [cleaner EXCEPT !.clean_tags = CleanEach(cleaner.tags),
                                  !.pc = "dedup"]
    /\ UNCHANGED except_cleaner

CleanTagsDedup ==
    /\ cleaner.pc = "dedup"
    /\ cleaner' = [cleaner EXCEPT !.clean_tags = FromKeys(@), !.pc = "pad"]
    /\ UNCHANGED except_cleaner

\* One turn of `while len(clean_tags) < 3`.
CleanTagsPad ==
    /\ cleaner.pc = "pad"
    /\ Len(cleaner.clean_tags) < TagCount
    /\ cleaner' = [cleaner EXCEPT
           !.clean_tags = Append(@, PadWord(cleaner.score))]
    /\ UNCHANGED except_cleaner

\* return clean_tags[:3]
CleanTagsSlice ==
    /\ cleaner.pc = "pad"
    /\ Len(cleaner.clean_tags) >= TagCount
    /\ cleaner' = [cleaner EXCEPT
           !.clean_tags = SubSeq(@, 1, TagCount), !.pc = "return"]
    /\ UNCHANGED except_cleaner

CleanTagsReturn ==
    /\ cleaner.pc = "return"
    /\ cleaner' = IdleCleaner
    /\ UNCHANGED except_cleaner

InitTags == InitQuiet

NextTags ==
    \/ /\ cleaner.pc = "idle"
       /\ \E tags \in TagLists, score \in HealthScores :
              CleanTagsCall(tags, score)
    \/ CleanTagsComprehension
    \/ CleanTagsDedup
    \/ CleanTagsPad
    \/ CleanTagsSlice
    \/ CleanTagsReturn

SpecTags == InitTags /\ [][NextTags]_vars

\* A non-empty string without whitespace and without an upper-case letter.
LowercaseWord(w) ==
    /\ w # <<>>
    /\ \A i \in DOMAIN w : ~IsSpace(w[i]) /\ LowerChar(w[i]) = w[i]

\* The distinct first words of the non-blank tags, lower-cased.
CleanedWords(tags) ==
    { Split(Lower(tags[i]))[1] :
          i \in {j \in DOMAIN tags : \E k \in DOMAIN tags[j] : ~IsSpace(tags[j][k])} }

\* C19: _clean_tags returns exactly 3 tags, each a lowercase single word;
\* the cleaned tags come first, without repetition, and when fewer than 3
\* distinct cleaned tags remain the rest is 'healthy' for a positive score,
\* 'unhealthy' for a negative one and 'neutral' for zero.
InvC19 ==
    cleaner.pc = "return" =>
        LET result == cleaner.clean_tags
            kept == Min(Cardinality(CleanedWords(cleaner.tags)), TagCount)
        IN  /\ Len(result) = TagCount
            /\ \A i \in 1..TagCount : LowercaseWord(result[i])
            /\ \A i \in 1..kept : result[i] \in CleanedWords(cleaner.tags)
            /\ \A i, j \in 1..kept : i # j => result[i] # result[j]
            /\ \A i \in (kept + 1)..TagCount :
                   result[i] = (IF cleaner.score > 0 THEN Healthy
                                ELSE IF cleaner.score < 0 THEN Unhealthy
                                ELSE Neutral)

\* A list with a blank tag, a tag of several upper-case words and a repeated
\* word came back as one cleaned tag and two pad words for a zero score.
WitC19 ==
    /\ cleaner.pc = "return"
    /\ cleaner.score = 0
    /\ cleaner.tags = << <<" ">>, <<" ", "B", " ", "a">>, <<"b">> >>
    /\ cleaner.clean_tags = << <<"b">>, Neutral, Neutral >>

\* More than three distinct cleaned tags were cut to the first three.
WitC19Truncated ==
    /\ cleaner.pc = "return"
    /\ Cardinality(CleanedWords(cleaner.tags)) > TagCount
    /\ cleaner.clean_tags = CleanEach(SubSeq(cleaner.tags, 1, TagCount))

\* ------------------------------- ResearchService.research_products ----
\* A product dict either has the keys the loop reads (title, asin, id,
\* price) or lacks one; a source either has title and url or lacks one.
Products == {"product", "no_asin"}
Sources == {"source", "no_url"}
ProductLists == UNION {[1..n -> Products] : n \in 0..MaxProducts}
SourceLists == UNION {[1..n -> Sources] : n \in 0..MaxSources}

\* Faulty variant: the status is set, the results are not stored.
CompletedUpdateNoResults(doc) == [doc EXCEPT !.status = "completed"]

\* doc_ref.update({'status': 'completed', 'results': ..., ...})
CompletedUpdate(doc) == [doc EXCEPT !.status = "completed", !.results = TRUE]

\* doc_ref.update({'status': 'error', 'error': str(e), ...})
ErrorUpdate(doc) == [doc EXCEPT !.status = "error", !.error = TRUE]

\* Control enters the except clause.
ResearchRaise(t) == [t EXCEPT !.pc = "except"]

ResearchProducts(products) ==
    /\ research.pc = "idle"
    /\ research' = [IdleResearch EXCEPT !.pc = "get_db", !.products = products]
    /\ UNCHANGED except_research

\* db = FirebaseService.get_db(); doc_ref = db.collection(...).document(id)
ResearchGetDb ==
    /\ research.pc = "get_db"
    /\ \/ research' = [research EXCEPT !.doc_ref = TRUE, !.pc = "set"]
       \/ research' = ResearchRaise(research)
    /\ UNCHANGED except_research

\* doc_ref.set({... 'status': 'in_progress' ...})
ResearchSet ==
    /\ research.pc = "set"
    /\ \/ research' = [research EXCEPT
              !.doc = [NoResearchDoc EXCEPT !.status = "in_progress"],
              !.written = Append(@, "in_progress"), !.pc = "search"]
       \/ research' = ResearchRaise([research EXCEPT !.raised = @ \cup {"set"}])
    /\ UNCHANGED except_research

\* One turn of `for product in products`: a missing key is a KeyError, the
\* search returns its sources or raises.
ResearchSearch ==
    LET i == Len(research.research_data) + 1
    IN  /\ research.pc = "search"
        /\ i <= Len(research.products)
        /\ IF research.products[i] # "product"
           THEN research' = ResearchRaise(research)
           ELSE \/ \E sources \in SourceLists :
                      research' = [research EXCEPT
                          !.research_data = Append(@, sources)]
                \/ research' = ResearchRaise(research)
        /\ UNCHANGED except_research

\* _generate_comparisons(research_data)
ResearchCompare ==
    /\ research.pc = "search"
    /\ Len(research.research_data) = Len(research.products)
    /\ \/ research' = [research EXCEPT !.compared = TRUE, !.pc = "complete"]
       \/ research' = ResearchRaise(research)
    /\ UNCHANGED except_research

\* The update with the results: source['title'] and source['url'] of every
\* source are read first, then the document is updated.
ResearchComplete ==
    /\ research.pc = "complete"
    /\ IF \E k \in DOMAIN research.research_data :
              \E n \in DOMAIN research.research_data[k] :
                  research.research_data[k][n] # "source"
       THEN research' = ResearchRaise(research)
       ELSE \/ research' = [research EXCEPT
                   !.doc = CompletedUpdate(@), !.built = TRUE,
                   !.written = Append(@, "completed"),
                   !.outcome = "returned", !.pc = "end"]
            \/ research' = ResearchRaise(
                   [research EXCEPT !.built = TRUE,
                                    !.raised = @ \cup {"completed"}])
    /\ UNCHANGED except_research

\* except Exception: `if doc_ref:` update the status to 'error', then
\* raise. Updating a document that was never set raises as well.
ResearchExcept ==
    /\ research.pc = "except"
    /\ \/ /\ research.doc_ref
          /\ research.doc.status # "absent"
          /\ research' = [research EXCEPT
                 !.doc = ErrorUpdate(@), !.written = Append(@, "error"),
                 !.outcome = "raised", !.pc = "end"]
       \/ /\ research.doc_ref
          /\ research' = [research EXCEPT
                 !.raised = @ \cup {"error"},
                 !.outcome = "raised", !.pc = "end"]
       \/ /\ ~research.doc_ref
          /\ research' = [research EXCEPT !.outcome = "raised", !.pc = "end"]
    /\ UNCHANGED except_research

\* The background task is over; the next task has a new research_id.
ResearchEnd ==
    /\ research.pc = "end"
    /\ research' = IdleResearch
    /\ UNCHANGED except_research

InitResearch == InitQuiet

NextResearch ==
    \/ /\ research.pc = "idle"
       /\ \E products \in ProductLists : ResearchProducts(products)
    \/ ResearchGetDb
    \/ ResearchSet
    \/ ResearchSearch
    \/ ResearchCompare
    \/ ResearchComplete
    \/ ResearchExcept
    \/ ResearchEnd

SpecResearch == InitResearch /\ [][NextResearch]_vars

\* C22 as stated: a task that ran to its end wrote 'in_progress' first and
\* changed the status exactly once after it, to 'completed' when every
\* search and the comparison succeeded and to 'error' otherwise.
OrigC22 ==
    research.pc = "end" =>
        /\ research.written =
               <<"in_progress", IF research.compared THEN "completed" ELSE "error">>
        /\ research.doc.status # "in_progress"

\* C22, amended: nothing is written before 'in_progress' and no search starts
\* before it is written; after it the status changes at most once, to
\* 'completed' together with the results, only when every search, the
\* comparison and the building of the results succeeded, or to 'error'
\* together with the error text; a task that ended leaves 'completed' if
\* those steps and the completing update succeeded, 'error' if one of them
\* raised and the error update succeeded, 'in_progress' if the error update
\* raised, and no document if the database or the first write failed; it
\* returns exactly when it wrote 'completed' and raises otherwise.
InvC22 ==
    /\ research.pc \in {"search", "complete"} =>
           research.written = <<"in_progress">> /\ research.doc.status = "in_progress"
    /\ research.pc \in {"get_db", "set"} => research.doc.status = "absent"
    /\ research.built => research.compared
    /\ \/ research.written = <<>> /\ research.doc.status = "absent"
       \/ research.written = <<"in_progress">> /\ research.doc.status = "in_progress"
       \/ research.written = <<"in_progress", "completed">>
              /\ research.doc = [status |-> "completed", results |-> TRUE, error |-> FALSE]
              /\ research.compared /\ research.built
       \/ research.written = <<"in_progress", "error">>
              /\ research.doc = [status |-> "error", results |-> FALSE, error |-> TRUE]
    /\ research.pc = "end" =>
           /\ research.doc.status =
                  (IF research.written = <<>> THEN "absent"
                   ELSE IF research.built /\ "completed" \notin research.raised
                        THEN "completed"
                   ELSE IF "error" \notin research.raised THEN "error"
                   ELSE "in_progress")
           /\ research.written = <<>> <=>
                  ~research.doc_ref \/ "set" \in research.raised
           /\ research.outcome = "returned" <=> research.doc.status = "completed"
           /\ research.outcome \in {"returned", "raised"}

\* Every search and the comparison succeeded, the completing update
\* raised, and the task left the status 'error'.
WitC22 ==
    /\ research.pc = "end"
    /\ Len(research.products) = MaxProducts
    /\ research.built
    /\ research.raised = {"completed"}
    /\ research.written = <<"in_progress", "error">>

\* The plain case: a task of MaxProducts products ended 'completed'.
WitC22Completed ==
    /\ research.pc = "end"
    /\ Len(research.products) = MaxProducts
    /\ research.doc.status = "completed"

\* ------------------------------------------- VideoAnalyzer.analyze ----
\* temp_file_path is TRUE once self.temp_file_path names the file;
\* file_exists says whether the file made by NamedTemporaryFile is on disk.
Analyze ==
    /\ analyzer.pc = "idle"
    /\ analyzer' = [IdleAnalyzer EXCEPT !.pc = "create"]
    /\ UNCHANGED except_analyzer

\* The analysis leaves the try block with an exception.
AnalyzerRaise(a, step) ==
    [a EXCEPT !.pc = "finally", !.failed = step, !.outcome = "raised"]

\* _download_video: tempfile.NamedTemporaryFile(suffix='.mp4', delete=False)
DownloadCreate ==
    /\ analyzer.pc = "create"
    /\ \/ analyzer' = [analyzer EXCEPT !.file_exists = TRUE, !.pc = "download"]
       \/ analyzer' = AnalyzerRaise(analyzer, "create")
    /\ UNCHANGED except_analyzer

\* blob.download_to_filename(temp_file.name); return temp_file.name.  The
\* assignment to self.temp_file_path happens in analyze, after the return.
DownloadBlob ==
    /\ analyzer.pc = "download"
    /\ \/ analyzer' = [analyzer EXCEPT
              !.temp_file_path = TRUE,
              !.tasks = [t \in AnalysisTasks |-> "pending"], !.pc = "gather"]
       \/ analyzer' = AnalyzerRaise(analyzer, "download")
    /\ UNCHANGED except_analyzer

\* One of the three coroutines of asyncio.gather runs: it opens the file
\* (which fails once the file is gone) and ends or fails; the video
\* intelligence one reads the file and then awaits the operation's result.
\* The coroutines are not cancelled when analyze leaves the gather.
AnalysisTask(t) ==
    /\ analyzer.pc # "idle"
    /\ \/ /\ analyzer.tasks[t] = "pending"
          /\ \/ /\ analyzer.file_exists
                /\ analyzer' = [analyzer EXCEPT !.tasks[t] =
                       IF t = "video_intelligence" THEN "awaiting" ELSE "done"]
             \/ analyzer' = [analyzer EXCEPT !.tasks[t] = "failed"]
       \/ /\ analyzer.tasks[t] = "awaiting"
          /\ \E result \in {"done", "failed"} :
                 analyzer' = [analyzer EXCEPT !.tasks[t] = result]
    /\ UNCHANGED except_analyzer

\* await asyncio.gather(...): the first exception is raised to analyze, the
\* results are returned when all three are done.
Gather ==
    /\ analyzer.pc = "gather"
    /\ \/ /\ \E t \in AnalysisTasks : analyzer.tasks[t] = "failed"
          /\ analyzer' = AnalyzerRaise(analyzer, "gather")
       \/ /\ \A t \in AnalysisTasks : analyzer.tasks[t] = "done"
          /\ analyzer' = [analyzer EXCEPT !.pc = "context"]
    /\ UNCHANGED except_analyzer

\* _get_content_context, _get_video_duration and _get_gpt_analysis, in turn.
LaterStep ==
    /\ analyzer.pc \in {"context", "duration", "gpt"}
    /\ \/ analyzer' = [analyzer EXCEPT
              !.pc = IF analyzer.pc = "context" THEN "duration"
                     ELSE IF analyzer.pc = "duration" THEN "gpt"
                     ELSE "finally",
              !.outcome = IF analyzer.pc = "gpt" THEN "returned" ELSE @]
       \/ analyzer' = AnalyzerRaise(analyzer, analyzer.pc)
    /\ UNCHANGED except_analyzer

\* if self.temp_file_path and os.path.exists(self.temp_file_path)
CleansUp(a) == a.temp_file_path /\ a.file_exists

\* finally: os.unlink(self.temp_file_path)
Finally ==
    /\ analyzer.pc = "finally"
    /\ analyzer' = [analyzer EXCEPT
           !.file_exists = IF CleansUp(analyzer) THEN FALSE ELSE @,
           !.pc = "ended"]
    /\ UNCHANGED except_analyzer

\* analyze_video_health goes on; the next request makes a new analyzer.
AnalyzerEnd ==
    /\ analyzer.pc = "ended"
    /\ analyzer' = IdleAnalyzer
    /\ UNCHANGED except_analyzer

InitAnalyzer == InitQuiet

NextAnalyzer ==
    \/ Analyze
    \/ DownloadCreate
    \/ DownloadBlob
    \/ \E t \in AnalysisTasks : AnalysisTask(t)
    \/ Gather
    \/ LaterStep
    \/ Finally
    \/ AnalyzerEnd

SpecAnalyzer == InitAnalyzer /\ [][NextAnalyzer]_vars

\* Once the download has returned, the file is removed whichever analysis
\* or later step failed, and no analysis still running brings it back.
InvDownloadedFileRemoved ==
    analyzer.pc = "ended" /\ analyzer.temp_file_path => ~analyzer.file_exists

\* The file was removed after one analysis failed while another had not
\* run yet.
WitDownloadedFileRemoved ==
    /\ analyzer.pc = "ended"
    /\ analyzer.failed = "gather"
    /\ \E t \in AnalysisTasks : analyzer.tasks[t] = "pending"
    /\ ~analyzer.file_exists

\* C24: after analyze returns or raises, the temporary file it downloaded
\* no longer exists, whichever step failed, the download itself included.
ClaimC24 ==
    analyzer.pc = "ended" => ~analyzer.file_exists

\* -------------------------- ChatAgent._get_specific_recommendation ----
\* A text is a sequence of words; a product title is one word, '' when the
\* product has none.
Titles == {"", "A", "B"}
RankedProducts ==
    {ps \in UNION {[1..n -> [title : Titles, score : 0..MaxRelevance]] :
                       n \in 0..MaxResults} :
        \A i, j \in DOMAIN ps : i < j => ps[i].score >= ps[j].score}

\* What the completion can hold: the phrase at the start, the phrase inside
\* the text, the phrase in lower case, its two words apart, or no text.
Replies ==
    { <<"I", "recommend", "the", "B">>, <<"Sure", "I", "recommend", "C">>,
      <<"i", "recommend", "A">>, <<"I", "would", "recommend", "A">>, <<>> }

\* "I recommend" in recommendation
HasPhrase(text) ==
    \E k \in 1..(Len(text) - 1) : text[k] = "I" /\ text[k + 1] = "recommend"

\* Faulty variant: untitled products stay in the list.
AllFormatted(products) == products

\* [p for p in formatted_products if p['title']]
TitledProducts(products) == SelectSeq(products, LAMBDA p : p.title # "")

\* f"I recommend the {formatted_products[0]['title']}. ..."
ForcedRecommendation(formatted_products) ==
    <<"I", "recommend", "the", formatted_products[1].title,
      "This", "product", "appears", "to", "be", "the", "best", "match">>

GetSpecificRecommendation(products) ==
    /\ recommender.pc = "idle"
    /\ recommender' = [IdleRecommender EXCEPT
           !.products = products, !.pc = "format",
           !.response_parts = <<"I found these relevant products">>]
    /\ UNCHANGED except_recommender

\* The formatting loop and the filter; an empty list returns ''.
FormatProducts ==
    LET formatted == TitledProducts(recommender.products)
    IN  /\ recommender.pc = "format"
        /\ recommender' = [recommender EXCEPT
               !.formatted_products = formatted,
               !.pc = IF formatted = <<>> THEN "returned" ELSE "completion"]
        /\ UNCHANGED except_recommender

\* json.dumps and chat.completions.create: an exception, or a content of
\* None (on which `in` raises), returns ''; so does no exception at all
\* escape.
Completion ==
    /\ recommender.pc = "completion"
    /\ \/ \E reply \in Replies :
              recommender' = [recommender EXCEPT
                  !.reply = reply,
                  !.result = IF HasPhrase(reply) THEN reply
                             ELSE ForcedRecommendation(recommender.formatted_products),
                  !.pc = "returned"]
       \/ recommender' = [recommender EXCEPT !.error = TRUE, !.pc = "returned"]
    /\ UNCHANGED except_recommender

\* _handle_report_query, lines 371-373: `if recommendation:` append.
AppendRecommendation ==
    /\ recommender.pc = "returned"
    /\ recommender' = [recommender EXCEPT
           !.response_parts =
               IF recommender.result # <<>>
               THEN @ \o <<"Based on your needs, I recommend:">> \o recommender.result
               ELSE @,
           !.pc = "appended"]
    /\ UNCHANGED except_recommender

RecommenderReturn ==
    /\ recommender.pc = "appended"
    /\ recommender' = IdleRecommender
    /\ UNCHANGED except_recommender

InitRecommender == InitQuiet

NextRecommender ==
    \/ /\ recommender.pc = "idle"
       /\ \E products \in RankedProducts : GetSpecificRecommendation(products)
    \/ FormatProducts
    \/ Completion
    \/ AppendRecommendation
    \/ RecommenderReturn

SpecRecommender == InitRecommender /\ [][NextRecommender]_vars

\* The positions of the products that have a title.
TitledAt(products) == {i \in DOMAIN products : products[i].title # ""}

\* C25: with a titled product and a successful completion the result holds
\* 'I recommend': it is the reply when the reply holds the phrase, otherwise
\* the fallback naming the first titled product, which no titled product
\* outscores; with no titled product or on an error the result is empty and
\* nothing is appended to the report response.
InvC25 ==
    recommender.pc \in {"returned", "appended"} =>
        LET ps == recommender.products
            titled == TitledAt(ps)
            first == CHOOSE i \in titled : \A j \in titled : i <= j
        IN  /\ titled # {} /\ ~recommender.error =>
                /\ HasPhrase(recommender.result)
                /\ (\E k \in 1..(Len(recommender.reply) - 1) :
                        /\ recommender.reply[k] = "I"
                        /\ recommender.reply[k + 1] = "recommend")
                   => recommender.result = recommender.reply
                /\ recommender.result # recommender.reply =>
                       /\ recommender.result[4] = ps[first].title
                       /\ \A j \in titled : ps[first].score >= ps[j].score
            /\ titled = {} \/ recommender.error => recommender.result = <<>>
            /\ recommender.pc = "appended" =>
                   IF recommender.result = <<>>
                   THEN recommender.response_parts = <<"I found these relevant products">>
                   ELSE Len(recommender.response_parts) = 2 + Len(recommender.result)

\* The completion spelled the phrase in lower case, and the fallback named
\* the second product, the first one having no title.
WitC25 ==
    /\ recommender.pc = "appended"
    /\ Len(recommender.products) >= 2
    /\ recommender.products[1].title = ""
    /\ recommender.products[2].title = "B"
    /\ recommender.reply = <<"i", "recommend", "A">>
    /\ recommender.result[4] = "B"
    /\ Len(recommender.response_parts) > 1

\* No product had a title: the result is empty and nothing was appended.
WitC25Untitled ==
    /\ recommender.pc = "appended"
    /\ Len(recommender.products) >= 2
    /\ TitledAt(recommender.products) = {}
    /\ recommender.response_parts = <<"I found these relevant products">>

\* -------------------------------------------- ResearchAgent.process ----
\* input_data: a product dict with id, title and productUrl (its id), or 0
\* for a dict that lacks one of them.
ReportInputs == 0..MaxProducts

\* What _generate_summary returns: a dict with every key the report text
\* reads, or valid JSON that lacks one.
Summaries == {"complete", "no_key_points"}

ReporterRaise(t, step) ==
    [t EXCEPT !.failed = step, !.outcome = "raised", !.pc = "ended"]

Process(input_data) ==
    /\ reporter.pc = "idle"
    /\ Len(reporter.reports) < MaxReports
    /\ reporter' = [IdleReporter EXCEPT
           !.reports = reporter.reports, !.namespace = reporter.namespace,
           !.input_data = input_data, !.pc = "validate"]
    /\ UNCHANGED except_reporter

\* if not self.validate_input(input_data): raise ValueError
ValidateInput ==
    /\ reporter.pc = "validate"
    /\ reporter' = IF reporter.input_data = 0
                   THEN ReporterRaise(reporter, "validate")
                   ELSE [reporter EXCEPT !.pc = "search"]
    /\ UNCHANGED except_reporter

\* _tavily_search returns results or [], and never raises.
ProcessSearch ==
    /\ reporter.pc = "search"
    /\ \E found \in {"results", "empty"} :
           reporter' = [reporter EXCEPT !.search_results = found, !.pc = "summary"]
    /\ UNCHANGED except_reporter

\* _generate_summary: the completion may raise.
GenerateSummary ==
    /\ reporter.pc = "summary"
    /\ \/ \E summary \in Summaries :
              reporter' = [reporter EXCEPT
                  !.research_summary = summary,
                  !.report = [id |-> Len(reporter.reports) + 1,
                              productId |-> reporter.input_data,
                              research |-> summary,
                              searchResults |-> reporter.search_results],
                  !.pc = "store"]
       \/ reporter' = ReporterRaise(reporter, "summary")
    /\ UNCHANGED except_reporter

\* report_ref = db.collection('reports').document(); report_ref.set(...)
StoreReport ==
    /\ reporter.pc = "store"
    /\ \/ reporter' = [reporter EXCEPT
              !.reports = Append(@, reporter.report), !.pc = "text"]
       \/ reporter' = ReporterRaise(reporter, "store")
    /\ UNCHANGED except_reporter

\* report_text, built outside the try: a summary without 'keyPoints' is a
\* KeyError.
ReportText ==
    /\ reporter.pc = "text"
    /\ reporter' = IF reporter.research_summary = "complete"
                   THEN [reporter EXCEPT !.pc = "embed"]
                   ELSE ReporterRaise(reporter, "text")
    /\ UNCHANGED except_reporter

\* Faulty variant: the error is logged and raised again.
VectorErrorRaised(t, step) ==
    [t EXCEPT !.failed = step, !.logged = @ + 1, !.outcome = "raised",
              !.pc = "ended"]

\* except Exception as e: logger.error(...), then `return report`.
VectorError(t, step) ==
    [t EXCEPT !.failed = step, !.logged = @ + 1, !.outcome = "returned",
              !.result = t.report, !.pc = "ended"]

\* json.dumps(metadata) and openai_client.embeddings.create
Embed ==
    /\ reporter.pc = "embed"
    /\ \/ reporter' = [reporter EXCEPT !.pc = "upsert"]
       \/ reporter' = VectorError(reporter, "embed")
    /\ UNCHANGED except_reporter

\* await VectorService.upsert_vectors(...): VectorService has no such
\* attribute, so the call is an AttributeError.
Upsert ==
    /\ reporter.pc = "upsert"
    /\ reporter' = VectorError(reporter, "upsert")
    /\ UNCHANGED except_reporter

ReporterReturn ==
    /\ reporter.pc = "ended"
    /\ reporter' = [IdleReporter EXCEPT
           !.reports = reporter.reports, !.namespace = reporter.namespace]
    /\ UNCHANGED except_reporter

InitReporter == InitQuiet

NextReporter ==
    \/ \E input_data \in ReportInputs : Process(input_data)
    \/ ValidateInput
    \/ ProcessSearch
    \/ GenerateSummary
    \/ StoreReport
    \/ ReportText
    \/ Embed
    \/ Upsert
    \/ ReporterReturn

SpecReporter == InitReporter /\ [][NextReporter]_vars

\* The report of the running call is the last document of 'reports'.
Stored(t) ==
    /\ t.reports # <<>>
    /\ t.reports[Len(t.reports)] = t.report

\* C26: process has written the report to 'reports' when it attempts the
\* vectorization; a failure of the embedding or of the upsert is logged and
\* the call returns the report; the vectorization steps leave the stored
\* reports as they are.
ThmC26 ==
    /\ [](/\ reporter.pc \in {"embed", "upsert"} => Stored(reporter)
          /\ reporter.failed \in {"embed", "upsert"} =>
                 /\ reporter.pc = "ended"
                 /\ reporter.outcome = "returned"
                 /\ reporter.result = reporter.report
                 /\ reporter.result.id # 0
                 /\ reporter.logged >= 1
                 /\ Stored(reporter))
    /\ [][reporter.pc \in {"embed", "upsert"} =>
              reporter'.reports = reporter.reports]_vars

\* The upsert failed after a second report was stored: the call returned
\* that report and both reports are in the collection.
WitC26 ==
    /\ reporter.pc = "ended"
    /\ reporter.failed = "upsert"
    /\ reporter.outcome = "returned"
    /\ Len(reporter.reports) = 2
    /\ reporter.result = reporter.reports[2]

\* ------------------------- hybrid requests over deleted video documents --
\* The databases of InitHybridDb, except that any of the documents of
\* 'videos' may be gone while the interaction documents that name them
\* remain (Firestore deletes no subcollection and no reference with a
\* document).
InitDeletedDb ==
    \E mine \in 0..1, theirs \in [Videos -> 0..1], existing \in SUBSET Videos :
        /\ user_interactions =
               [u \in Users |->
                   IF u = 1 THEN [v \in Videos |-> IF v = 1 THEN mine ELSE 0]
                   ELSE IF u = 2 THEN theirs
                   ELSE [v \in Videos |-> 0]]
        /\ video_interactions =
               [v \in Videos |-> [u \in Users |-> IF v = 1 /\ u <= 2 THEN 1 ELSE 0]]
        /\ videos = existing
        /\ index_exists \in BOOLEAN
        /\ index = IF index_exists THEN Videos ELSE {}
        /\ vector_service = Uninitialized

InitDeleted ==
    /\ InitDeletedDb
    /\ InitFrames

SpecDeleted == InitDeleted /\ [][Next]_vars

\* get_graph_recommendations(user_id, limit >= 1) has something to return:
\* another user has interacted with one of the user's videos and has
\* interaction documents of its own.
GraphNonEmpty(user_id) ==
    \E v \in Docs(user_interactions[user_id]) :
        \E w \in Docs(video_interactions[v]) \ {user_id} :
            Docs(user_interactions[w]) # {}

\* The operator agrees with the graph list the call computes.
InvGraphNonEmpty ==
    \A r \in Requests :
        (frame[r].op = "hybrid" /\ frame[r].pc = "merge" /\ frame[r].count >= 1) =>
            (frame[r].graph_videos # <<>> <=> GraphNonEmpty(frame[r].user_id))

\* Past the early return, with every recommended document in place, a
\* non-empty graph list gives a non-empty result, and no score is
\* accumulated before both lists are fetched.
InvMergeKeepsGraph ==
    \A r \in Requests :
        /\ (/\ frame[r].op = "hybrid"
            /\ frame[r].pc = "done"
            /\ frame[r].recent_videos # <<>>
            /\ frame[r].graph_videos # <<>>
            /\ frame[r].count >= 1
            /\ videos = Videos)
           => frame[r].result # <<>>
        /\ final_scores[r] # <<>> =>
               frame[r].pc \in {"merge_graph", "merge_similar", "fetch", "done", "raised"}

\* C27: get_hybrid_recommendations returns a non-empty result whenever the
\* graph list is non-empty and count >= 1, whether or not the user has
\* recent videos.
ClaimC27 ==
    \A r \in Requests :
        (/\ frame[r].op = "hybrid"
         /\ frame[r].pc = "done"
         /\ frame[r].count >= 1
         /\ GraphNonEmpty(frame[r].user_id))
        => frame[r].result # <<>>

\* The same, asked only when the document of every video a similar user
\* has interacted with is in place: the early return alone empties the
\* result.
ClaimC27DocumentsInPlace ==
    \A r \in Requests :
        (/\ frame[r].op = "hybrid"
         /\ frame[r].pc = "done"
         /\ frame[r].count >= 1
         /\ GraphNonEmpty(frame[r].user_id)
         /\ \A w \in Users \ {frame[r].user_id} :
                Docs(user_interactions[w]) \subseteq videos)
        => frame[r].result # <<>>
====
